---- MODULE Spec2Model ----
(***************************************************************************)
(* Startup, transport registration, privilege drop and shutdown of the     *)
(* hickory-dns server binary (bin/src/hickory-dns.rs).                     *)
(*                                                                         *)
(* async_run is a sequential routine; `pc` is its position.  Every loop    *)
(* iteration of the source (one zone, one listen address of one transport) *)
(* is one action, check_drop_privs is one action.  `trace` is the ordered  *)
(* log of the operations the routine has issued against the operating      *)
(* system and the server (the metrics listener, zone reads, socket calls,  *)
(* certificate loads, registrations, identity system calls, task spawns).  *)
(***************************************************************************)
EXTENDS Integers, Sequences, FiniteSets, TLC

VARIABLES
    validate,        \* args.validate
    cli_disable,     \* args.disable_udp, args.disable_tcp, args.disable_tls, ...
    config_disable,  \* config.disable_udp(), config.disable_tcp(), ...
    tls_cert,        \* config.tls_cert(): TRUE when Some(..)
    v4addr,          \* config.listen_addrs_ipv4()
    v6addr,          \* config.listen_addrs_ipv6()
    zones,           \* config.zones(): the declared zone names, in order
    user,            \* config.user (None when not configured)
    group,           \* config.group (None when not configured)
    cli_port,        \* args.port, args.tls_port, args.https_port, args.quic_port
    config_port,     \* config.listen_port(), config.tls_listen_port(), ...
    prometheus,      \* the prometheus-metrics feature and its two disable flags
    pc,              \* position of async_run
    idx,             \* index of the next element of the loop at pc
    listen_addrs,    \* the local listen_addrs of async_run
    catalog,         \* Catalog: zone name -> authority (index of the declaration)
    server,          \* ServerFuture: "none", "built", "running", "stopped"
    registered,      \* sockets and listeners handed to the server, in order
    start,           \* the identity the process was started with
    ident,           \* process identity: uid, euid, suid, gid, egid, sgid
    signal,          \* SIGTERM stream: "none", "registered", "pending", "consumed"
    sigterms,        \* how many SIGTERMs have been delivered to the process
    early,           \* a SIGTERM was delivered before the signal task was spawned
    task,            \* the spawned signal task: "none", "waiting", "done"
    token,           \* server.shutdown_token(): TRUE when cancelled
    result,          \* outcome of the process: "pending", "ok", "err", "panic"
    error,           \* which step returned the error ("" when none)
    trace,           \* ordered log of issued operations
    input,           \* the dig output handed to DigOutput::from_str, as lines
    output           \* what from_str returned (None before the call)

vars == <<validate, cli_disable, config_disable, tls_cert, v4addr, v6addr, zones,
          user, group, cli_port, config_port, prometheus, start, pc, idx, listen_addrs, catalog, server, registered, ident, signal, sigterms, early, task,
          token, result, error, trace, input, output>>

(* the record of the signals delivered so far *)
delivered == <<sigterms, early>>

(* the variables of the conformance client *)
dig == <<input, output>>

config == <<validate, cli_disable, config_disable, tls_cert, v4addr, v6addr, zones,
            user, group, cli_port, config_port, prometheus, start>>

(* the variables of the server binary *)
startup == <<config, pc, idx, listen_addrs, catalog, server, registered, ident, signal,
             delivered, task, token, result, error, trace>>

----------------------------------------------------------------------------
(* Bounds of the model *)

MaxV4 == 2
MaxV6 == 1
MaxZones == 2
MaxForced == 1
MaxSignals == 2
MaxLines == 4

(* Program constants *)

ROOT == 0
LISTEN_BACKLOG == 128

----------------------------------------------------------------------------
(* Domains *)

Transports == {"UDP", "TCP", "TLS", "HTTPS", "QUIC"}

TransportOrder == <<"UDP", "TCP", "TLS", "HTTPS", "QUIC">>

V4Addrs == {"192.0.2.1", "192.0.2.2"}
V6Addrs == {"2001:db8::1"}
V4_UNSPECIFIED == "0.0.0.0"
V6_UNSPECIFIED == "::"

ZoneNames == {"example.com", "EXAMPLE.COM", "example.org"}

SeqsUpTo(S, n) == UNION {[1..k -> S] : k \in 0..n}

is_ipv4(ip) == ip \in V4Addrs \cup {V4_UNSPECIFIED}

(* Option<u16>: None is the empty sequence, Some(p) the sequence of p *)
Some(p) == <<p>>
unwrap_or(opt, default) == IF opt = <<>> THEN default ELSE opt[1]

(* The settings a port is read from: --port and listen_port for UDP and *)
(* TCP, and one pair of settings for each of TLS, HTTPS and QUIC        *)
PortKeys == {"DNS", "TLS", "HTTPS", "QUIC"}

(* An issued operation; `port` is Some(p) on a bind to port p, `backlog` *)
(* Some(n) on a listen with backlog n                                   *)
Entry(op, t, addr) ==
    [op |-> op, t |-> t, addr |-> addr, port |-> <<>>, backlog |-> <<>>]

(* Identities: the superuser, the service account and an ordinary user *)
Nobody == ROOT + 1
User == ROOT + 2
NoEntry == ROOT - 1      \* a NULL result of getpwnam / getgrnam

(* Account names: two that exist, one that does not, one that holds a NUL byte *)
None == "<none>"
DEFAULT_USER == "nobody"
DEFAULT_GROUP == "nobody"
NulName == "no<NUL>body"
Names == {"root", "ghost", NulName}

(* The account databases of the host *)
getpwnam(name) ==
    CASE name = "nobody" -> Nobody
      [] name = "root"   -> ROOT
      [] OTHER           -> NoEntry

getgrnam(name) ==
    CASE name = "nobody" -> Nobody
      [] name = "root"   -> ROOT
      [] OTHER           -> NoEntry

cstring_new(name) == name # NulName

Identity(real, eff, saved) ==
    [uid |-> real, euid |-> eff, suid |-> saved,
     gid |-> real, egid |-> eff, sgid |-> saved]

----------------------------------------------------------------------------
(* build_tcp_listener, build_udp_socket.  `fail` names the call that fails *)
(* ("none": no call fails); the result carries the calls issued, in order. *)

Issued(steps, fail) ==
    IF \E i \in DOMAIN steps : steps[i] = fail
    THEN SubSeq(steps, 1, CHOOSE i \in DOMAIN steps : steps[i] = fail)
    ELSE steps

(* Fault variant: the socket is made non-blocking after it is bound *)
tcp_steps_late_nonblocking(ip) ==
    (IF is_ipv4(ip) THEN <<"socket">> ELSE <<"socket", "set_only_v6">>)
    \o <<"bind", "set_nonblocking", "listen", "from_std">>

tcp_steps(ip) ==
    (IF is_ipv4(ip) THEN <<"socket">> ELSE <<"socket", "set_only_v6">>)
    \o <<"set_nonblocking", "bind", "listen", "from_std">>

udp_steps(ip) ==
    (IF is_ipv4(ip) THEN <<"socket">> ELSE <<"socket", "set_only_v6">>)
    \o <<"set_nonblocking", "bind", "from_std">>

build_tcp_listener(ip, port, fail) ==
    [ok    |-> \A i \in DOMAIN tcp_steps(ip) : tcp_steps(ip)[i] # fail,
     port  |-> port,
     calls |-> Issued(tcp_steps(ip), fail)]

(* Fault variant: a bind is retried once before its result is looked at *)
build_udp_socket_retry(ip, port, fail) ==
    [ok    |-> \A i \in DOMAIN udp_steps(ip) : udp_steps(ip)[i] # fail,
     port  |-> port,
     calls |-> LET c == Issued(udp_steps(ip), fail)
                   b == SelectSeq(c, LAMBDA op : op = "bind")
               IN  SelectSeq(c, LAMBDA op : op \in {"socket", "set_only_v6",
                                                     "set_nonblocking"})
                   \o b \o b \o SelectSeq(c, LAMBDA op : op = "from_std")]

build_udp_socket(ip, port, fail) ==
    [ok    |-> \A i \in DOMAIN udp_steps(ip) : udp_steps(ip)[i] # fail,
     port  |-> port,
     calls |-> Issued(udp_steps(ip), fail)]

(* sock.bind(&SocketAddr::new(ip, port)) is the call that carries the port *)
Log(t, addr, port, ops) ==
    [i \in DOMAIN ops |->
        [Entry(ops[i], t, addr) EXCEPT
            !.port = IF ops[i] = "bind" THEN Some(port) ELSE <<>>,
            !.backlog = IF ops[i] = "listen" THEN Some(LISTEN_BACKLOG) ELSE <<>>]]

Failures == {"none", "load", "socket", "set_only_v6", "set_nonblocking", "bind",
             "listen", "from_std", "local_addr", "register"}

(* One loop iteration over a listen address: the calls issued, whether the *)
(* iteration completed, and the error it returned otherwise.               *)
Iteration(t, addr, fail, build, with_cert) ==
    LET load == IF with_cert THEN <<Entry("load", t, addr)>> ELSE <<>>
        sock == load \o Log(t, addr, build.port, build.calls)
        look == sock \o <<Entry("local_addr", t, addr)>>
        full == look \o <<Entry("register", t, addr)>>
    IN  IF with_cert /\ fail = "load"
        THEN [ok |-> FALSE, err |-> "cert", calls |-> load]
        ELSE IF ~build.ok
        THEN [ok |-> FALSE, err |-> "bind", calls |-> sock]
        ELSE IF fail = "local_addr"
        THEN [ok |-> FALSE, err |-> "local_addr", calls |-> look]
        ELSE IF with_cert /\ fail = "register"
        THEN [ok |-> FALSE, err |-> "register", calls |-> full]
        ELSE [ok |-> TRUE, err |-> "", calls |-> full]

(* args.port.unwrap_or_else(|| config.listen_port()) *)
listen_port == unwrap_or(cli_port["DNS"], config_port["DNS"])

(* Fault variant: --port also overrides the port of DNS over TLS *)
tls_listen_port_shared ==
    unwrap_or(cli_port["TLS"], unwrap_or(cli_port["DNS"], config_port["TLS"]))

(* tls_port.unwrap_or_else(|| config.tls_listen_port()) and its likes *)
tls_listen_port == unwrap_or(cli_port["TLS"], config_port["TLS"])
https_listen_port == unwrap_or(cli_port["HTTPS"], config_port["HTTPS"])
quic_listen_port == unwrap_or(cli_port["QUIC"], config_port["QUIC"])

udp_iteration(addr, fail) ==
    Iteration("UDP", addr, fail, build_udp_socket(addr, listen_port, fail), FALSE)

tcp_iteration(addr, fail) ==
    Iteration("TCP", addr, fail, build_tcp_listener(addr, listen_port, fail), FALSE)

tls_iteration(addr, fail) ==
    Iteration("TLS", addr, fail, build_tcp_listener(addr, tls_listen_port, fail), TRUE)

(* Fault variant: the HTTPS loop binds without loading the certificate *)
https_iteration_no_load(addr, fail) ==
    Iteration("HTTPS", addr, fail, build_tcp_listener(addr, https_listen_port, fail), FALSE)

https_iteration(addr, fail) ==
    Iteration("HTTPS", addr, fail, build_tcp_listener(addr, https_listen_port, fail), TRUE)

quic_iteration(addr, fail) ==
    Iteration("QUIC", addr, fail, build_udp_socket(addr, quic_listen_port, fail), TRUE)

(* Fault variant: a transport is skipped only when both flags disable it *)
enabled_either(t) == ~cli_disable[t] \/ ~config_disable[t]

(* A transport is served iff neither its command-line flag nor its *)
(* configuration flag disables it.                                 *)
enabled(t) == ~cli_disable[t] /\ ~config_disable[t]

----------------------------------------------------------------------------
(* async_run *)

Return(res, kind) ==
    /\ result' = res
    /\ error' = kind
    /\ pc' = "done"

Goto(next) ==
    /\ pc' = next
    /\ idx' = 1
    /\ UNCHANGED <<result, error>>

(* run: the tracing subscriber is set up from the environment *)
InitTracing ==
    /\ pc = "tracing"
    /\ \E ok \in BOOLEAN :
          IF ok THEN Goto("runtime") ELSE Return("err", "tracing") /\ UNCHANGED idx
    /\ UNCHANGED <<dig, config, listen_addrs, catalog, server, registered, ident, signal, delivered,
                   task, token, trace>>

(* run: the Tokio runtime is built, and async_run is run on it *)
BuildRuntime ==
    /\ pc = "runtime"
    /\ \E ok \in BOOLEAN :
          IF ok THEN Goto("read_config") ELSE Return("err", "runtime") /\ UNCHANGED idx
    /\ UNCHANGED <<dig, config, listen_addrs, catalog, server, registered, ident, signal, delivered,
                   task, token, trace>>

(* Fault variant: main prints the error and then returns Ok(()) *)
exit_status_no_exit ==
    CASE result \in {"ok", "err"} -> "0"
      [] result = "panic"         -> "panic"
      [] OTHER                    -> "running"

(* main: the exit status of the process, and the number of `Error: ...` *)
(* lines it has written to standard error                               *)
exit_status ==
    CASE result = "ok"    -> "0"
      [] result = "err"   -> "1"
      [] result = "panic" -> "panic"
      [] OTHER            -> "running"

error_lines == IF result = "err" THEN <<error>> ELSE <<>>

ReadConfig ==
    /\ pc = "read_config"
    /\ \E ok \in BOOLEAN :
          IF ok THEN Goto("prometheus") ELSE Return("err", "config") /\ UNCHANGED idx
    /\ UNCHANGED <<dig, config, listen_addrs, catalog, server, registered, ident, signal, delivered,
                   task, token, trace>>

(* the block is compiled in, and neither flag disables the endpoint *)
prometheus_enabled ==
    /\ prometheus.feature
    /\ ~prometheus.cli_disable
    /\ ~prometheus.config_disable

(* PrometheusBuilder::new().with_http_listener(socket).install() *)
InstallPrometheus ==
    /\ pc = "prometheus"
    /\ IF prometheus_enabled
       THEN \E ok \in BOOLEAN :
              IF ok
              THEN /\ Goto("signal")
                   /\ trace' = Append(trace, Entry("http_listener", "PROMETHEUS", "-"))
              ELSE /\ Return("err", "prometheus")
                   /\ UNCHANGED <<idx, trace>>
       ELSE Goto("signal") /\ UNCHANGED trace
    /\ UNCHANGED <<dig, config, listen_addrs, catalog, server, registered, ident, signal, delivered,
                   task, token>>

RegisterSignal ==
    /\ pc = "signal"
    /\ \E ok \in BOOLEAN :
          IF ok
          THEN /\ Goto("zones")
               /\ signal' = "registered"
               /\ trace' = Append(trace, Entry("signal", "-", "-"))
               /\ UNCHANGED delivered
          ELSE /\ Return("err", "signal")
               /\ UNCHANGED <<idx, signal, delivered, trace>>
    /\ UNCHANGED <<dig, config, listen_addrs, catalog, server, registered, ident,
                   task, token>>

(* zone_name.into(): the LowerName of a zone name *)
LowerName(name) ==
    CASE name = "EXAMPLE.COM" -> "example.com"
      [] OTHER                -> name

(* Fault variant: a name the catalog already holds keeps its authority *)
upsert_first_wins(cat, name, authority) ==
    IF \E e \in cat : e[1] = name THEN cat ELSE cat \cup {<<name, authority>>}

(* Catalog::upsert: the authority stored under the name is replaced *)
upsert(cat, name, authority) ==
    {e \in cat : e[1] # name} \cup {<<name, authority>>}

(* Fault variant: a zone that fails is recorded and the loop moves on *)
LoadZoneSwallow ==
    /\ pc = "zones"
    /\ IF idx > Len(zones)
       THEN Goto("addrs") /\ UNCHANGED <<catalog, trace>>
       ELSE \E outcome \in {"ok", "zone_name", "zone_load"} :
              /\ trace' = trace \o <<Entry("zone_name", "-", zones[idx])>>
              /\ catalog' = IF outcome = "ok"
                            THEN catalog \cup {<<zones[idx], idx>>}
                            ELSE catalog
              /\ idx' = idx + 1
              /\ error' = IF outcome = "ok" THEN error ELSE outcome
              /\ UNCHANGED <<pc, result>>
    /\ UNCHANGED <<dig, config, listen_addrs, server, registered, ident, signal, delivered,
                   task, token>>

(* The operations of one pass of the zone loop: zone.zone(), zone.load() *)
zone_calls(name, outcome) ==
    IF outcome = "zone_name"
    THEN <<Entry("zone_name", "-", name)>>
    ELSE <<Entry("zone_name", "-", name), Entry("zone_load", "-", name)>>

LoadZone ==
    /\ pc = "zones"
    /\ IF idx > Len(zones)
       THEN Goto("addrs") /\ UNCHANGED <<catalog, trace>>
       ELSE \E outcome \in {"ok", "zone_name", "zone_load"} :
              /\ trace' = trace \o zone_calls(zones[idx], outcome)
              /\ IF outcome = "ok"
                 THEN /\ catalog' = upsert(catalog, LowerName(zones[idx]), idx)
                      /\ idx' = idx + 1
                      /\ UNCHANGED <<pc, result, error>>
                 ELSE /\ Return("err", outcome)
                      /\ UNCHANGED <<idx, catalog>>
    /\ UNCHANGED <<dig, config, listen_addrs, server, registered, ident, signal, delivered,
                   task, token>>

(* Fault variant: no wildcard pair stands in for an empty configuration *)
plan_no_default(v4, v6) == v4 \o v6

(* Fault variant: the IPv6 addresses are chained before the IPv4 ones *)
plan_v6_first(v4, v6) ==
    IF v6 \o v4 = <<>> THEN <<V4_UNSPECIFIED, V6_UNSPECIFIED>> ELSE v6 \o v4

(* listen_addrs: the IPv4 list chained with the IPv6 list, and the two *)
(* unspecified addresses when that is empty                            *)
plan(v4, v6) ==
    IF v4 \o v6 = <<>> THEN <<V4_UNSPECIFIED, V6_UNSPECIFIED>> ELSE v4 \o v6

PlanAddrs ==
    /\ pc = "addrs"
    /\ \E outcome \in {"ok", "parse_v4", "parse_v6"} :
          IF outcome = "ok"
          THEN /\ listen_addrs' = plan(v4addr, v6addr)
               /\ Goto("validate")
          ELSE /\ Return("err", outcome)
               /\ UNCHANGED <<idx, listen_addrs>>
    /\ UNCHANGED <<dig, config, catalog, server, registered, ident, signal, delivered,
                   task, token, trace>>

NewServer ==
    /\ pc = "validate"
    /\ IF validate
       THEN Return("ok", "") /\ UNCHANGED <<idx, server>>
       ELSE Goto("udp") /\ server' = "built"
    /\ UNCHANGED <<dig, config, listen_addrs, catalog, registered, ident, signal, delivered,
                   task, token, trace>>

iteration(t, addr, fail) ==
    CASE t = "UDP"   -> udp_iteration(addr, fail)
      [] t = "TCP"   -> tcp_iteration(addr, fail)
      [] t = "TLS"   -> tls_iteration(addr, fail)
      [] t = "HTTPS" -> https_iteration(addr, fail)
      [] t = "QUIC"  -> quic_iteration(addr, fail)

(* Fault variant: the listen plan is walked from its end *)
addr_at_reversed(i) == listen_addrs[Len(listen_addrs) + 1 - i]

(* for addr in &listen_addrs: the address of the i-th iteration *)
addr_at(i) == listen_addrs[i]

(* listen_addrs.is_empty() in config_tls, config_https and config_quic: *)
(* a warning is logged and Ok returned; the UDP and TCP loops just run  *)
(* zero times                                                           *)
empty_list_warning(t) ==
    IF t \in {"TLS", "HTTPS", "QUIC"} THEN <<Entry("warn", t, "-")>> ELSE <<>>

(* The body shared by the five registration loops: `on` is the enable  *)
(* test of the transport, `next` the position after its loop.          *)
Loop(t, on, next) ==
    /\ IF ~on \/ (listen_addrs # <<>> /\ idx > Len(listen_addrs))
       THEN Goto(next) /\ UNCHANGED <<registered, trace>>
       ELSE IF listen_addrs = <<>>
       THEN /\ Goto(next)
            /\ trace' = trace \o empty_list_warning(t)
            /\ UNCHANGED registered
       ELSE \E fail \in Failures :
              LET r == iteration(t, addr_at(idx), fail) IN
              /\ trace' = trace \o r.calls
              /\ IF r.ok
                 THEN /\ registered' = Append(registered, [t |-> t, addr |-> addr_at(idx)])
                      /\ idx' = idx + 1
                      /\ UNCHANGED <<pc, result, error>>
                 ELSE /\ Return("err", r.err)
                      /\ UNCHANGED <<idx, registered>>
    /\ UNCHANGED <<dig, config, listen_addrs, catalog, server, ident, signal, delivered, task, token>>

(* Fault variant: a failed iteration is recorded and the loop moves on *)
LoopSwallow(t, on, next) ==
    /\ IF ~on \/ idx > Len(listen_addrs)
       THEN Goto(next) /\ UNCHANGED <<registered, trace>>
       ELSE \E fail \in Failures :
              LET r == iteration(t, addr_at(idx), fail) IN
              /\ trace' = trace \o r.calls
              /\ idx' = idx + 1
              /\ error' = r.err
              /\ registered' = IF r.ok
                                THEN Append(registered, [t |-> t, addr |-> addr_at(idx)])
                                ELSE registered
              /\ UNCHANGED <<pc, result>>
    /\ UNCHANGED <<dig, config, listen_addrs, catalog, server, ident, signal, delivered, task, token>>

RegisterUdpSwallow ==
    /\ pc = "udp"
    /\ LoopSwallow("UDP", enabled("UDP"), "tcp")

RegisterUdp ==
    /\ pc = "udp"
    /\ Loop("UDP", enabled("UDP"), "tcp")

(* Fault variant: the privilege drop follows the TCP loop *)
RegisterTcpThenDrop ==
    /\ pc = "tcp"
    /\ Loop("TCP", enabled("TCP"), "drop_privs")

RegisterTcp ==
    /\ pc = "tcp"
    /\ Loop("TCP", enabled("TCP"), "tls_cert")

(* Fault variant: the certificate of the configuration is never looked at *)
TlsCertSkips ==
    /\ pc = "tls_cert"
    /\ Goto("drop_privs")
    /\ UNCHANGED <<dig, config, listen_addrs, catalog, server, registered, ident, signal, delivered,
                   task, token, trace>>

(* Fault variant: the TLS transports are set up without a certificate *)
TlsCertAlways ==
    /\ pc = "tls_cert"
    /\ Goto("tls")
    /\ UNCHANGED <<dig, config, listen_addrs, catalog, server, registered, ident, signal, delivered,
                   task, token, trace>>

TlsCert ==
    /\ pc = "tls_cert"
    /\ IF tls_cert THEN Goto("tls") ELSE Goto("drop_privs")
    /\ UNCHANGED <<dig, config, listen_addrs, catalog, server, registered, ident, signal, delivered,
                   task, token, trace>>

(* Fault variant: the certificate is loaded before the address list is *)
(* looked at                                                           *)
config_tls_load_first ==
    /\ pc = "tls"
    /\ IF enabled("TLS") /\ listen_addrs = <<>>
       THEN /\ Goto("https")
            /\ trace' = trace \o <<Entry("load", "TLS", "-"), Entry("warn", "TLS", "-")>>
            /\ UNCHANGED <<dig, config, listen_addrs, catalog, server, ident, signal, delivered, task,
                           token, registered>>
       ELSE Loop("TLS", enabled("TLS"), "https")

config_tls ==
    /\ pc = "tls"
    /\ Loop("TLS", enabled("TLS"), "https")

config_https ==
    /\ pc = "https"
    /\ Loop("HTTPS", enabled("HTTPS"), "quic")

config_quic ==
    /\ pc = "quic"
    /\ Loop("QUIC", enabled("QUIC"), "drop_privs")

----------------------------------------------------------------------------
(* check_drop_privs.  The identity system calls follow POSIX: a process  *)
(* whose effective uid is the superuser may set any id, and then all of  *)
(* the real, effective and saved ids change; any other process may only  *)
(* set its effective id to its real or saved id.  `os_fail` names the    *)
(* calls the operating system refuses for a reason of its own.           *)

setgid(id, g, os_fail) ==
    IF "setgid" \in os_fail THEN [rc |-> -1, id |-> id]
    ELSE IF id.euid = ROOT
    THEN [rc |-> 0, id |-> [id EXCEPT !.gid = g, !.egid = g, !.sgid = g]]
    ELSE IF g \in {id.gid, id.sgid}
    THEN [rc |-> 0, id |-> [id EXCEPT !.egid = g]]
    ELSE [rc |-> -1, id |-> id]

setuid(id, u, os_fail) ==
    IF "setuid" \in os_fail THEN [rc |-> -1, id |-> id]
    ELSE IF id.euid = ROOT
    THEN [rc |-> 0, id |-> [id EXCEPT !.uid = u, !.euid = u, !.suid = u]]
    ELSE IF u \in {id.uid, id.suid}
    THEN [rc |-> 0, id |-> [id EXCEPT !.euid = u]]
    ELSE [rc |-> -1, id |-> id]

Sys(ops) == [i \in DOMAIN ops |-> Entry(ops[i], "-", "-")]

snapshot == Sys(<<"getuid", "getgid", "geteuid", "getegid">>)

(* Fault variant: setuid is issued before setgid *)
check_drop_privs_swapped(id, usr, grp, os_fail) ==
    LET lookup == snapshot \o Sys(<<"getpwnam", "getgrnam">>)
        change == lookup \o Sys(<<"setuid", "setgid">>)
        u      == setuid(id, getpwnam(usr), os_fail)
        g      == setgid(u.id, getgrnam(grp), os_fail)
    IN  IF id.uid = ROOT \/ id.euid = ROOT
        THEN IF ~cstring_new(usr)
             THEN [ok |-> FALSE, err |-> "user_cstring", id |-> id, calls |-> snapshot]
             ELSE IF ~cstring_new(grp)
             THEN [ok |-> FALSE, err |-> "group_cstring", id |-> id, calls |-> snapshot]
             ELSE IF getpwnam(usr) = NoEntry
             THEN [ok |-> FALSE, err |-> "lookup_user", id |-> id, calls |-> lookup]
             ELSE IF getgrnam(grp) = NoEntry
             THEN [ok |-> FALSE, err |-> "lookup_group", id |-> id, calls |-> lookup]
             ELSE IF g.rc < 0
             THEN [ok |-> FALSE, err |-> "setgid", id |-> g.id, calls |-> change]
             ELSE IF u.rc < 0
             THEN [ok |-> FALSE, err |-> "setuid", id |-> g.id, calls |-> change]
             ELSE [ok |-> TRUE, err |-> "", id |-> g.id, calls |-> change \o snapshot]
        ELSE [ok |-> TRUE, err |-> "", id |-> id, calls |-> snapshot \o snapshot]

(* Fault variant: the result of getgrnam is not tested for NULL *)
check_drop_privs_unchecked_group(id, usr, grp, os_fail) ==
    LET lookup == snapshot \o Sys(<<"getpwnam", "getgrnam">>)
        change == lookup \o Sys(<<"setgid", "setuid">>)
        g      == setgid(id, getgrnam(grp), os_fail)
        u      == setuid(g.id, getpwnam(usr), os_fail)
    IN  IF id.uid = ROOT \/ id.euid = ROOT
        THEN IF ~cstring_new(usr)
             THEN [ok |-> FALSE, err |-> "user_cstring", id |-> id, calls |-> snapshot]
             ELSE IF ~cstring_new(grp)
             THEN [ok |-> FALSE, err |-> "group_cstring", id |-> id, calls |-> snapshot]
             ELSE IF getpwnam(usr) = NoEntry
             THEN [ok |-> FALSE, err |-> "lookup_user", id |-> id, calls |-> lookup]
             ELSE IF g.rc < 0
             THEN [ok |-> FALSE, err |-> "setgid", id |-> u.id, calls |-> change]
             ELSE IF u.rc < 0
             THEN [ok |-> FALSE, err |-> "setuid", id |-> u.id, calls |-> change]
             ELSE [ok |-> TRUE, err |-> "", id |-> u.id, calls |-> change \o snapshot]
        ELSE [ok |-> TRUE, err |-> "", id |-> id, calls |-> snapshot \o snapshot]

(* Fault variant: the drop is entered only when both uid and euid are 0 *)
check_drop_privs_both(id, usr, grp, os_fail) ==
    LET lookup == snapshot \o Sys(<<"getpwnam", "getgrnam">>)
        change == lookup \o Sys(<<"setgid", "setuid">>)
        g      == setgid(id, getgrnam(grp), os_fail)
        u      == setuid(g.id, getpwnam(usr), os_fail)
    IN  IF id.uid = ROOT /\ id.euid = ROOT
        THEN IF ~cstring_new(usr)
             THEN [ok |-> FALSE, err |-> "user_cstring", id |-> id, calls |-> snapshot]
             ELSE IF ~cstring_new(grp)
             THEN [ok |-> FALSE, err |-> "group_cstring", id |-> id, calls |-> snapshot]
             ELSE IF getpwnam(usr) = NoEntry
             THEN [ok |-> FALSE, err |-> "lookup_user", id |-> id, calls |-> lookup]
             ELSE IF getgrnam(grp) = NoEntry
             THEN [ok |-> FALSE, err |-> "lookup_group", id |-> id, calls |-> lookup]
             ELSE IF g.rc < 0
             THEN [ok |-> FALSE, err |-> "setgid", id |-> u.id, calls |-> change]
             ELSE IF u.rc < 0
             THEN [ok |-> FALSE, err |-> "setuid", id |-> u.id, calls |-> change]
             ELSE [ok |-> TRUE, err |-> "", id |-> u.id, calls |-> change \o snapshot]
        ELSE [ok |-> TRUE, err |-> "", id |-> id, calls |-> snapshot \o snapshot]

check_drop_privs(id, usr, grp, os_fail) ==
    LET lookup == snapshot \o Sys(<<"getpwnam", "getgrnam">>)
        change == lookup \o Sys(<<"setgid", "setuid">>)
        g      == setgid(id, getgrnam(grp), os_fail)
        u      == setuid(g.id, getpwnam(usr), os_fail)
    IN  IF id.uid = ROOT \/ id.euid = ROOT
        THEN IF ~cstring_new(usr)
             THEN [ok |-> FALSE, err |-> "user_cstring", id |-> id, calls |-> snapshot]
             ELSE IF ~cstring_new(grp)
             THEN [ok |-> FALSE, err |-> "group_cstring", id |-> id, calls |-> snapshot]
             ELSE IF getpwnam(usr) = NoEntry
             THEN [ok |-> FALSE, err |-> "lookup_user", id |-> id, calls |-> lookup]
             ELSE IF getgrnam(grp) = NoEntry
             THEN [ok |-> FALSE, err |-> "lookup_group", id |-> id, calls |-> lookup]
             ELSE IF g.rc < 0
             THEN [ok |-> FALSE, err |-> "setgid", id |-> u.id, calls |-> change]
             ELSE IF u.rc < 0
             THEN [ok |-> FALSE, err |-> "setuid", id |-> u.id, calls |-> change]
             ELSE [ok |-> TRUE, err |-> "", id |-> u.id, calls |-> change \o snapshot]
        ELSE [ok |-> TRUE, err |-> "", id |-> id, calls |-> snapshot \o snapshot]

(* config.user.as_deref().unwrap_or(DEFAULT_USER), and the group likewise *)
user_name == IF user = None THEN DEFAULT_USER ELSE user
group_name == IF group = None THEN DEFAULT_GROUP ELSE group

(* Fault variant: the error of check_drop_privs is recorded, not returned *)
CheckDropPrivsUnchecked ==
    /\ pc = "drop_privs"
    /\ \E os_fail \in SUBSET {"setgid", "setuid"} :
          LET r == check_drop_privs(ident, user_name, group_name, os_fail) IN
          /\ ident' = r.id
          /\ trace' = trace \o <<Entry("check_drop_privs", "-", "-")>> \o r.calls
          /\ pc' = "spawn"
          /\ idx' = 1
          /\ error' = r.err
          /\ UNCHANGED result
    /\ UNCHANGED <<dig, config, listen_addrs, catalog, server, registered, signal, delivered, task, token>>

CheckDropPrivs ==
    /\ pc = "drop_privs"
    /\ \E os_fail \in SUBSET {"setgid", "setuid"} :
          LET r == check_drop_privs(ident, user_name, group_name, os_fail) IN
          /\ ident' = r.id
          /\ trace' = trace \o <<Entry("check_drop_privs", "-", "-")>> \o r.calls
          /\ IF r.ok
             THEN Goto("spawn")
             ELSE Return("err", r.err) /\ UNCHANGED idx
    /\ UNCHANGED <<dig, config, listen_addrs, catalog, server, registered, signal, delivered, task, token>>

----------------------------------------------------------------------------
(* Shutdown: the signal task, the token and the serve loop *)

(* Fault variant: the stream is created by the task, so a signal that *)
(* arrived before the task was spawned is dropped                     *)
SpawnSignalTaskFresh ==
    /\ pc = "spawn"
    /\ task' = "waiting"
    /\ signal' = "registered"
    /\ trace' = Append(trace, Entry("spawn", "-", "-"))
    /\ Goto("serve")
    /\ UNCHANGED <<dig, config, listen_addrs, catalog, server, registered, ident, delivered, token>>

SpawnSignalTask ==
    /\ pc = "spawn"
    /\ task' = "waiting"
    /\ trace' = Append(trace, Entry("spawn", "-", "-"))
    /\ Goto("serve")
    /\ UNCHANGED <<dig, config, listen_addrs, catalog, server, registered, ident, signal, delivered, token>>

BlockUntilDone ==
    /\ pc = "serve"
    /\ server = "built"
    /\ server' = "running"
    /\ trace' = Append(trace, Entry("block_until_done", "-", "-"))
    /\ UNCHANGED <<dig, config, pc, idx, listen_addrs, catalog, registered, ident, signal, delivered,
                   task, token, result, error>>

(* The serve loop observes the cancelled token and returns Ok *)
ServerStops ==
    /\ pc = "serve"
    /\ server = "running"
    /\ token
    /\ server' = "stopped"
    /\ Return("ok", "")
    /\ UNCHANGED <<dig, config, idx, listen_addrs, catalog, registered, ident, signal, delivered,
                   task, token, trace>>

(* Fault variant: the error of block_until_done is logged and async_run *)
(* returns Ok                                                          *)
ServerFailsLogged ==
    /\ pc = "serve"
    /\ server = "running"
    /\ server' = "stopped"
    /\ Return("ok", "server")
    /\ UNCHANGED <<dig, config, idx, listen_addrs, catalog, registered, ident, signal, delivered,
                   task, token, trace>>

(* block_until_done returns Err: async_run panics *)
ServerFails ==
    /\ pc = "serve"
    /\ server = "running"
    /\ server' = "stopped"
    /\ Return("panic", "server")
    /\ UNCHANGED <<dig, config, idx, listen_addrs, catalog, registered, ident, signal, delivered,
                   task, token, trace>>

(* SIGTERM is delivered to the live process once its handler is installed, *)
(* any number of times: the stream holds at most one undelivered signal,   *)
(* and nothing receives it once the task that owns the stream has ended.   *)
Sigterm ==
    /\ pc # "done"
    /\ signal # "none"
    /\ sigterms < MaxSignals
    /\ sigterms' = sigterms + 1
    /\ early' = (early \/ task = "none")
    /\ signal' = IF task = "done" THEN signal ELSE "pending"
    /\ UNCHANGED <<dig, config, pc, idx, listen_addrs, catalog, server, registered, ident,
                   task, token, result, error, trace>>

(* CancellationToken::cancel *)
cancel(tok) == TRUE

(* Fault variant: the task loops on the stream and flips the token on *)
(* every signal                                                       *)
SignalTaskToggles ==
    /\ pc # "done"
    /\ task = "waiting"
    /\ signal = "pending"
    /\ signal' = "consumed"
    /\ token' = ~token
    /\ UNCHANGED <<dig, config, pc, idx, listen_addrs, catalog, server, registered, ident,
                   delivered, task, result, error, trace>>

(* Fault variant: the task receives the signal and ends without cancelling *)
SignalTaskForgets ==
    /\ pc # "done"
    /\ task = "waiting"
    /\ signal = "pending"
    /\ signal' = "consumed"
    /\ task' = "done"
    /\ UNCHANGED <<dig, config, pc, idx, listen_addrs, catalog, server, registered, ident,
                   delivered, token, result, error, trace>>

(* signal.recv().await; token.cancel() *)
SignalTask ==
    /\ pc # "done"
    /\ task = "waiting"
    /\ signal = "pending"
    /\ signal' = "consumed"
    /\ token' = cancel(token)
    /\ task' = "done"
    /\ UNCHANGED <<dig, config, pc, idx, listen_addrs, catalog, server, registered, ident,
                   delivered, result, error, trace>>

----------------------------------------------------------------------------
(* The conformance client: DigOutput::from_str.  A line is the sequence of *)
(* its characters, the input the sequence of its lines (input.lines()).   *)

FLAGS_PREFIX ==
    <<";", ";", " ", "f", "l", "a", "g", "s", ":", " ">>

STATUS_PREFIX ==
    <<";", ";", " ", "-", ">", ">", "H", "E", "A", "D", "E", "R", "<",
      "<", "-", " ", "o", "p", "c", "o", "d", "e", ":", " ", "Q", "U",
      "E", "R", "Y", ",", " ", "s", "t", "a", "t", "u", "s", ":", " ">>

EDE_PREFIX ==
    <<";", " ", "E", "D", "E", ":", " ">>

ANSWER_HEADER ==
    <<";", ";", " ", "A", "N", "S", "W", "E", "R", " ", "S", "E", "C",
      "T", "I", "O", "N", ":">>

AUTHORITY_HEADER ==
    <<";", ";", " ", "A", "U", "T", "H", "O", "R", "I", "T", "Y", " ",
      "S", "E", "C", "T", "I", "O", "N", ":">>

ADDITIONAL_HEADER ==
    <<";", ";", " ", "A", "D", "D", "I", "T", "I", "O", "N", "A", "L",
      " ", "S", "E", "C", "T", "I", "O", "N", ":">>

(* str::starts_with, str::strip_prefix, str::split_once *)
starts_with(line, prefix) ==
    Len(line) >= Len(prefix) /\ SubSeq(line, 1, Len(prefix)) = prefix

strip_prefix(line, prefix) ==
    IF starts_with(line, prefix)
    THEN Some(SubSeq(line, Len(prefix) + 1, Len(line)))
    ELSE <<>>

split_once(text, delimiter) ==
    IF \E i \in DOMAIN text : text[i] = delimiter
    THEN LET i == CHOOSE k \in DOMAIN text :
                      /\ text[k] = delimiter
                      /\ \A j \in 1..(k - 1) : text[j] # delimiter
         IN  Some(<<SubSeq(text, 1, i - 1), SubSeq(text, i + 1, Len(text))>>)
    ELSE <<>>

(* str::split_whitespace: the maximal runs of non-whitespace characters *)
RECURSIVE split_whitespace(_)
split_whitespace(text) ==
    IF text = <<>> THEN <<>>
    ELSE IF text[1] \in {" ", "\t"} THEN split_whitespace(Tail(text))
    ELSE LET stop == IF \E i \in DOMAIN text : text[i] \in {" ", "\t"}
                     THEN CHOOSE k \in DOMAIN text :
                              /\ text[k] \in {" ", "\t"}
                              /\ \A j \in 1..(k - 1) : text[j] \notin {" ", "\t"}
                     ELSE Len(text) + 1
         IN  <<SubSeq(text, 1, stop - 1)>>
             \o split_whitespace(SubSeq(text, stop, Len(text)))

Digit(c) ==
    CASE c = "0" -> 0 [] c = "1" -> 1 [] c = "2" -> 2 [] c = "3" -> 3
      [] c = "4" -> 4 [] c = "5" -> 5 [] c = "6" -> 6 [] c = "7" -> 7
      [] c = "8" -> 8 [] c = "9" -> 9

RECURSIVE digits_value(_)
digits_value(text) ==
    IF text = <<>> THEN 0
    ELSE 10 * digits_value(SubSeq(text, 1, Len(text) - 1)) + Digit(text[Len(text)])

(* u16::from_str: an optional plus sign and at least one digit, no more *)
(* than u16::MAX                                                         *)
parse_u16(text) ==
    LET body == IF text # <<>> /\ text[1] = "+" THEN Tail(text) ELSE text IN
    IF /\ body # <<>>
       /\ \A i \in DOMAIN body :
              body[i] \in {"0", "1", "2", "3", "4", "5", "6", "7", "8", "9"}
       /\ digits_value(body) <= 65535
    THEN Some(digits_value(body))
    ELSE <<>>

(* enum ExtendedDnsError: a variant is its discriminant *)
ExtendedDnsError == {1, 6, 9, 10, 18, 22}

(* ExtendedDnsError::from_str *)
ede_from_str(text) ==
    LET code == parse_u16(text) IN
    IF code = <<>> THEN [kind |-> "err", err |-> <<"invalid digit", "EDE">>]
    ELSE IF code[1] \in ExtendedDnsError THEN [kind |-> "ok", value |-> code[1]]
    ELSE [kind |-> "panic", err |-> <<"not yet implemented", "EDE">>]

(* the code text of an EDE line: split_once(' ').map(|(code, _)| code) *)
(* .unwrap_or(unprefixed)                                              *)
ede_code_text(unprefixed) ==
    LET parts == split_once(unprefixed, " ") IN
    IF parts = <<>> THEN unprefixed ELSE parts[1][1]

(* Fault variant: the set keeps the order of insertion *)
insert_appends(set, value) ==
    IF \E i \in DOMAIN set : set[i] = value
    THEN [inserted |-> FALSE, set |-> set]
    ELSE [inserted |-> TRUE, set |-> Append(set, value)]

(* BTreeSet::insert; the set is the ascending sequence its iterator yields *)
insert(set, value) ==
    IF \E i \in DOMAIN set : set[i] = value
    THEN [inserted |-> FALSE, set |-> set]
    ELSE [inserted |-> TRUE,
          set |-> SelectSeq(set, LAMBDA v : v < value) \o <<value>>
                  \o SelectSeq(set, LAMBDA v : v > value)]

NoFlags == [f \in {"qr", "rd", "ra", "aa", "ad", "cd"} |-> FALSE]

Name(flag) ==
    CASE flag = <<"q", "r">> -> "qr"
      [] flag = <<"r", "d">> -> "rd"
      [] flag = <<"r", "a">> -> "ra"
      [] flag = <<"a", "a">> -> "aa"
      [] flag = <<"a", "d">> -> "ad"
      [] flag = <<"c", "d">> -> "cd"
      [] OTHER -> "?"

(* DigFlags::from_str *)
RECURSIVE flags_fold(_, _)
flags_fold(tokens, flags) ==
    IF tokens = <<>> THEN [kind |-> "ok", value |-> flags]
    ELSE IF Name(tokens[1]) = "?"
    THEN [kind |-> "err", err |-> <<"unknown flag", "FLAGS">>]
    ELSE flags_fold(Tail(tokens), [flags EXCEPT ![Name(tokens[1])] = TRUE])

flags_from_str(text) == flags_fold(split_whitespace(text), NoFlags)

NOERROR ==
    <<"N", "O", "E", "R", "R", "O", "R">>
NXDOMAIN ==
    <<"N", "X", "D", "O", "M", "A", "I", "N">>
REFUSED ==
    <<"R", "E", "F", "U", "S", "E", "D">>
SERVFAIL ==
    <<"S", "E", "R", "V", "F", "A", "I", "L">>

(* DigStatus::from_str *)
status_from_str(text) ==
    CASE text = NXDOMAIN -> [kind |-> "ok", value |-> "NXDOMAIN"]
      [] text = NOERROR  -> [kind |-> "ok", value |-> "NOERROR"]
      [] text = REFUSED  -> [kind |-> "ok", value |-> "REFUSED"]
      [] text = SERVFAIL -> [kind |-> "ok", value |-> "SERVFAIL"]
      [] OTHER -> [kind |-> "err", err |-> <<"unknown status", "STATUS">>]

(* Record::from_str: the whitespace-separated fields of a line that is not *)
(* a comment: name, TTL, class, type and record data                       *)
record_from_str(line) ==
    LET fields == split_whitespace(line) IN
    IF /\ line # <<>>
       /\ line[1] # ";"
       /\ Len(fields) >= 5
       /\ parse_u16(fields[2]) # <<>>
       /\ fields[3] = <<"I", "N">>
    THEN Some([name |-> fields[1], ttl |-> parse_u16(fields[2])[1],
               type |-> fields[4], rdata |-> SubSeq(fields, 5, Len(fields))])
    ELSE <<>>

(* Fault variant: a line that is not a record is left out of the section *)
RECURSIVE read_section_skips(_)
read_section_skips(lines) ==
    IF lines = <<>> THEN [ok |-> TRUE, records |-> <<>>, rest |-> <<>>]
    ELSE IF lines[1] = <<>> THEN [ok |-> TRUE, records |-> <<>>, rest |-> Tail(lines)]
    ELSE LET next == read_section_skips(Tail(lines)) IN
         IF record_from_str(lines[1]) = <<>> THEN next
         ELSE [next EXCEPT !.records = record_from_str(lines[1]) \o @]

(* for line in lines.by_ref() { if line.is_empty() { break; }            *)
(* records.push(line.parse()?); }: the records read, and the lines left  *)
(* in the iterator                                                       *)
RECURSIVE read_section(_)
read_section(lines) ==
    IF lines = <<>> THEN [ok |-> TRUE, records |-> <<>>, rest |-> <<>>]
    ELSE IF lines[1] = <<>> THEN [ok |-> TRUE, records |-> <<>>, rest |-> Tail(lines)]
    ELSE IF record_from_str(lines[1]) = <<>>
    THEN [ok |-> FALSE, records |-> <<>>, rest |-> Tail(lines)]
    ELSE LET next == read_section(Tail(lines)) IN
         [next EXCEPT !.records = record_from_str(lines[1]) \o @]

Sections == <<"answer", "authority", "additional">>

Header(section) ==
    CASE section = "answer"     -> ANSWER_HEADER
      [] section = "authority"  -> AUTHORITY_HEADER
      [] section = "additional" -> ADDITIONAL_HEADER

(* the locals of from_str before its loop *)
Locals ==
    [flags |-> <<>>, status |-> <<>>, answer |-> <<>>, authority |-> <<>>,
     additional |-> <<>>, ede |-> <<>>]

(* one section branch of the loop, entered on a line that starts with *)
(* the header of `section`                                            *)
section_branch(st, section, lines) ==
    IF st[section] # <<>>
    THEN [kind |-> "err", err |-> <<"found more than once", section>>, st |-> st,
          rest |-> lines]
    ELSE LET r == read_section(lines) IN
         IF r.ok
         THEN [kind |-> "ok", st |-> [st EXCEPT ![section] = Some(r.records)],
               rest |-> r.rest]
         ELSE [kind |-> "err", err |-> <<"record", section>>, st |-> st, rest |-> r.rest]

(* the body of the loop for the line at the head of `lines` *)
loop_body(st, lines) ==
    LET line == lines[1]
        rest == Tail(lines)
        flags_text == strip_prefix(line, FLAGS_PREFIX)
        status_text == strip_prefix(line, STATUS_PREFIX)
        ede_text == strip_prefix(line, EDE_PREFIX)
    IN  IF flags_text # <<>>
        THEN LET parts == split_once(flags_text[1], ";") IN
             IF parts = <<>>
             THEN [kind |-> "err", err |-> <<"missing", "FLAGS">>, st |-> st, rest |-> rest]
             ELSE IF st.flags # <<>>
             THEN [kind |-> "err", err |-> <<"found more than once", "FLAGS">>, st |-> st,
                   rest |-> rest]
             ELSE LET f == flags_from_str(parts[1][1]) IN
                  IF f.kind = "ok"
                  THEN [kind |-> "ok", st |-> [st EXCEPT !.flags = Some(f.value)],
                        rest |-> rest]
                  ELSE [kind |-> "err", err |-> f.err, st |-> st, rest |-> rest]
        ELSE IF status_text # <<>>
        THEN LET parts == split_once(status_text[1], ",") IN
             IF parts = <<>>
             THEN [kind |-> "err", err |-> <<"missing", "STATUS">>, st |-> st, rest |-> rest]
             ELSE IF st.status # <<>>
             THEN [kind |-> "err", err |-> <<"found more than once", "STATUS">>, st |-> st,
                   rest |-> rest]
             ELSE LET s == status_from_str(parts[1][1]) IN
                  IF s.kind = "ok"
                  THEN [kind |-> "ok", st |-> [st EXCEPT !.status = Some(s.value)],
                        rest |-> rest]
                  ELSE [kind |-> "err", err |-> s.err, st |-> st, rest |-> rest]
        ELSE IF ede_text # <<>>
        THEN LET code == ede_from_str(ede_code_text(ede_text[1])) IN
             IF code.kind # "ok"
             THEN [kind |-> code.kind, err |-> code.err, st |-> st, rest |-> rest]
             ELSE LET i == insert(st.ede, code.value) IN
                  IF i.inserted
                  THEN [kind |-> "ok", st |-> [st EXCEPT !.ede = i.set], rest |-> rest]
                  ELSE [kind |-> "panic", err |-> <<"duplicate EDE", "EDE">>, st |-> st,
                        rest |-> rest]
        ELSE IF starts_with(line, ANSWER_HEADER)
        THEN section_branch(st, "answer", rest)
        ELSE IF starts_with(line, AUTHORITY_HEADER)
        THEN section_branch(st, "authority", rest)
        ELSE IF starts_with(line, ADDITIONAL_HEADER)
        THEN section_branch(st, "additional", rest)
        ELSE [kind |-> "ok", st |-> st, rest |-> rest]

(* while let Some(line) = lines.next() { ... } *)
RECURSIVE scan(_, _)
scan(st, lines) ==
    IF lines = <<>> THEN [kind |-> "ok", st |-> st]
    ELSE LET r == loop_body(st, lines) IN
         IF r.kind = "ok" THEN scan(r.st, r.rest)
         ELSE [kind |-> r.kind, err |-> r.err]

(* Fault variant: a missing status line is looked for before a missing *)
(* flags line                                                          *)
from_str_status_first(text) ==
    LET r == scan(Locals, text) IN
    IF r.kind # "ok" THEN r
    ELSE IF r.st.status = <<>> THEN [kind |-> "err", err |-> <<"not found", "STATUS">>]
    ELSE IF r.st.flags = <<>> THEN [kind |-> "err", err |-> <<"not found", "FLAGS">>]
    ELSE [kind |-> "ok",
          value |-> [answer |-> unwrap_or(r.st.answer, <<>>),
                     authority |-> unwrap_or(r.st.authority, <<>>),
                     additional |-> unwrap_or(r.st.additional, <<>>),
                     ede |-> r.st.ede,
                     flags |-> r.st.flags[1],
                     status |-> r.st.status[1]]]

(* DigOutput::from_str *)
from_str(text) ==
    LET r == scan(Locals, text) IN
    IF r.kind # "ok" THEN r
    ELSE IF r.st.flags = <<>> THEN [kind |-> "err", err |-> <<"not found", "FLAGS">>]
    ELSE IF r.st.status = <<>> THEN [kind |-> "err", err |-> <<"not found", "STATUS">>]
    ELSE [kind |-> "ok",
          value |-> [answer |-> unwrap_or(r.st.answer, <<>>),
                     authority |-> unwrap_or(r.st.authority, <<>>),
                     additional |-> unwrap_or(r.st.additional, <<>>),
                     ede |-> r.st.ede,
                     flags |-> r.st.flags[1],
                     status |-> r.st.status[1]]]

(* output: DigOutput = input.parse() *)
Parse ==
    /\ input # <<>>
    /\ output = <<>>
    /\ output' = Some(from_str(input))
    /\ UNCHANGED <<input, startup>>

(* The lines the inputs are made of *)
StatusLine ==
    <<";", ";", " ", "-", ">", ">", "H", "E", "A", "D", "E", "R", "<",
      "<", "-", " ", "o", "p", "c", "o", "d", "e", ":", " ", "Q", "U",
      "E", "R", "Y", ",", " ", "s", "t", "a", "t", "u", "s", ":", " ",
      "S", "E", "R", "V", "F", "A", "I", "L", ",", " ", "i", "d", ":",
      " ", "1">>

FlagsLine ==
    <<";", ";", " ", "f", "l", "a", "g", "s", ":", " ", "q", "r", " ",
      "r", "d", " ", "r", "a", ";", " ", "Q", "U", "E", "R", "Y", ":",
      " ", "1">>

RecordA ==
    <<"l", ".", " ", "6", "0", " ", "I", "N", " ", "A", " ", "1", "9",
      "9", ".", "7", ".", "8", "3", ".", "4", "2">>

RecordNS ==
    <<".", " ", "6", "0", " ", "I", "N", " ", "N", "S", " ", "l", ".">>

Comment ==
    <<";", ";", " ", "Q", "u", "e", "r", "y", " ", "t", "i", "m", "e",
      ":", " ", "3", " ", "m", "s", "e", "c">>

Ede22 ==
    <<";", " ", "E", "D", "E", ":", " ", "2", "2", " ", "(", "N", "o",
      " ", "R", "e", "a", "c", "h", "a", "b", "l", "e", " ", "A", "u",
      "t", "h", "o", "r", "i", "t", "y", ")", ":", " ", "(", "a", "t",
      " ", "d", "e", "l", "e", "g", "a", "t", "i", "o", "n", ")">>

Ede9 ==
    <<";", " ", "E", "D", "E", ":", " ", "9">>

Ede09 ==
    <<";", " ", "E", "D", "E", ":", " ", "0", "9", " ", "(", "D", "N",
      "S", "K", "E", "Y", " ", "M", "i", "s", "s", "i", "n", "g", ")">>

Ede7 ==
    <<";", " ", "E", "D", "E", ":", " ", "7", " ", "(", "S", "i", "g",
      "n", "a", "t", "u", "r", "e", " ", "E", "x", "p", "i", "r", "e",
      "d", ")">>

EdeText ==
    <<";", " ", "E", "D", "E", ":", " ", "(", "n", "o", "n", "e", ")">>

StatusUnknown ==
    <<";", ";", " ", "-", ">", ">", "H", "E", "A", "D", "E", "R", "<",
      "<", "-", " ", "o", "p", "c", "o", "d", "e", ":", " ", "Q", "U",
      "E", "R", "Y", ",", " ", "s", "t", "a", "t", "u", "s", ":", " ",
      "F", "O", "R", "M", "E", "R", "R", ",", " ", "i", "d", ":", " ", "1">>

StatusNoComma ==
    <<";", ";", " ", "-", ">", ">", "H", "E", "A", "D", "E", "R", "<",
      "<", "-", " ", "o", "p", "c", "o", "d", "e", ":", " ", "Q", "U",
      "E", "R", "Y", ",", " ", "s", "t", "a", "t", "u", "s", ":", " ",
      "N", "O", "E", "R", "R", "O", "R">>

FlagsReordered ==
    <<";", ";", " ", "f", "l", "a", "g", "s", ":", " ", " ", "r", "a",
      " ", "q", "r", " ", "r", "d", " ", "q", "r", " ", ";", " ", "Q",
      "U", "E", "R", "Y", ":", " ", "1">>

FlagsUnknown ==
    <<";", ";", " ", "f", "l", "a", "g", "s", ":", " ", "q", "r", " ",
      "t", "c", ";", " ", "Q", "U", "E", "R", "Y", ":", " ", "1">>

FlagsNoSemicolon ==
    <<";", ";", " ", "f", "l", "a", "g", "s", ":", " ", "q", "r", " ",
      "r", "d", " ", "r", "a">>

Empty == <<>>

(* status and flags lines as dig prints them, before everything else *)
Preamble == <<StatusLine, FlagsLine>>

SectionLines ==
    {ANSWER_HEADER, AUTHORITY_HEADER, ADDITIONAL_HEADER, Empty, RecordA, RecordNS, Comment}

EdeLines == {Ede22, Ede9, Ede09, Ede7, EdeText, ANSWER_HEADER, Empty}

(* status and flags lines, well-formed and not, in any number and order *)
HeaderLines ==
    {StatusLine, StatusUnknown, StatusNoComma, FlagsLine, FlagsReordered, FlagsUnknown,
     FlagsNoSemicolon, ANSWER_HEADER, Empty}

Inputs ==
    {Preamble \o body : body \in SeqsUpTo(SectionLines, MaxLines) \cup SeqsUpTo(EdeLines, MaxLines)}
    \cup (SeqsUpTo(HeaderLines, MaxLines) \ {<<>>})

----------------------------------------------------------------------------
(* Specification *)

(* What the text of the returned error names: the path of the          *)
(* configuration file, a zone, a listen address, the certificate path, *)
(* an account, or nothing                                              *)
config_path == "/etc/named.toml"
tls_cert_path == "cert.pem"

message_subject ==
    CASE error \in {"config", "zone_name", "parse_v4", "parse_v6"} -> config_path
      [] error = "zone_load" -> zones[idx]
      [] error = "bind" -> listen_addrs[idx]
      [] error = "cert" -> tls_cert_path
      [] error \in {"user_cstring", "lookup_user"} -> user_name
      [] error \in {"group_cstring", "lookup_group"} -> group_name
      [] OTHER -> ""

(* The identities a process can be started with: root, an ordinary user, *)
(* a set-uid root binary run by a user, and root running under another   *)
(* effective id (with root or that id as the saved id)                   *)
Idents == {Identity(ROOT, ROOT, ROOT), Identity(User, User, User),
           Identity(User, ROOT, ROOT), Identity(ROOT, User, ROOT),
           Identity(ROOT, Nobody, Nobody)}

(* The ports the configuration yields when it sets none, another set of *)
(* configured ports, and the ports the command line may give            *)
DefaultPorts == [k \in PortKeys |->
    CASE k = "DNS" -> 53 [] k = "TLS" -> 853 [] k = "HTTPS" -> 443 [] k = "QUIC" -> 853]
ConfiguredPorts == [k \in PortKeys |->
    CASE k = "DNS" -> 1053 [] k = "TLS" -> 1853 [] k = "HTTPS" -> 1443 [] k = "QUIC" -> 1784]
CliPorts == [k \in PortKeys |->
    CASE k = "DNS" -> 5353 [] k = "TLS" -> 8853 [] k = "HTTPS" -> 8443 [] k = "QUIC" -> 8784]
NoCliPorts == [k \in PortKeys |-> <<>>]

(* A build without the prometheus-metrics feature *)
NoMetrics == [feature |-> FALSE, cli_disable |-> FALSE, config_disable |-> FALSE]

AllOn == [t \in Transports |-> FALSE]
AllOff == [t \in Transports |-> TRUE]
OnlyPlain == [t \in Transports |-> t \notin {"UDP", "TCP"}]

(* The configuration space is swept one group of settings at a time, the *)
(* other groups held at one value: the settings of one group are read at *)
(* program points of their own.                                          *)

(* every combination of the ten disable flags, with a certificate, on the *)
(* default listen plan, as an ordinary user                              *)
SweepTransports ==
    /\ validate = FALSE
    /\ cli_disable \in [Transports -> BOOLEAN]
    /\ config_disable \in [Transports -> BOOLEAN]
    /\ tls_cert = TRUE
    /\ v4addr = <<>>
    /\ v6addr = <<>>
    /\ zones = <<"example.com">>
    /\ user = None
    /\ group = None
    /\ cli_port = NoCliPorts
    /\ config_port = DefaultPorts
    /\ prometheus = NoMetrics
    /\ ident = Identity(User, User, User)

(* every starting identity and every configured account, serving UDP and *)
(* TCP or nothing at all                                                 *)
SweepIdentity ==
    /\ validate = FALSE
    /\ cli_disable \in {OnlyPlain, AllOff}
    /\ config_disable = AllOn
    /\ tls_cert = FALSE
    /\ v4addr = <<>>
    /\ v6addr = <<>>
    /\ zones = <<"example.com">>
    /\ user \in Names \cup {None}
    /\ group \in Names \cup {None}
    /\ cli_port = NoCliPorts
    /\ config_port = DefaultPorts
    /\ prometheus = NoMetrics
    /\ ident \in Idents

(* every configured address list *)
SweepAddrs ==
    /\ validate \in BOOLEAN
    /\ cli_disable = AllOn
    /\ config_disable = AllOn
    /\ tls_cert \in BOOLEAN
    /\ v4addr \in SeqsUpTo(V4Addrs, MaxV4)
    /\ v6addr \in SeqsUpTo(V6Addrs, MaxV6)
    /\ zones = <<"example.com">>
    /\ user = None
    /\ group = None
    /\ cli_port = NoCliPorts
    /\ config_port = DefaultPorts
    /\ prometheus = NoMetrics
    /\ ident = Identity(User, User, User)

(* every configured zone list *)
SweepZones ==
    /\ validate \in BOOLEAN
    /\ cli_disable = AllOn
    /\ config_disable \in {AllOn, OnlyPlain}
    /\ tls_cert = FALSE
    /\ v4addr = <<>>
    /\ v6addr = <<>>
    /\ zones \in SeqsUpTo(ZoneNames, MaxZones)
    /\ user = None
    /\ group = None
    /\ cli_port = NoCliPorts
    /\ config_port = DefaultPorts
    /\ prometheus = NoMetrics
    /\ ident = Identity(User, User, User)

(* every combination of port overrides, over two sets of configured ports *)
SweepPorts ==
    /\ validate = FALSE
    /\ cli_disable = AllOn
    /\ config_disable = AllOn
    /\ tls_cert = TRUE
    /\ v4addr = <<>>
    /\ v6addr = <<>>
    /\ zones = <<"example.com">>
    /\ user = None
    /\ group = None
    /\ cli_port \in {[k \in PortKeys |-> IF k \in given THEN Some(CliPorts[k]) ELSE <<>>] :
                       given \in SUBSET PortKeys}
    /\ config_port \in {DefaultPorts, ConfiguredPorts}
    /\ prometheus = NoMetrics
    /\ ident = Identity(User, User, User)

(* no certificate: every combination of the six flags and the three port *)
(* options of TLS, HTTPS and QUIC that the command line accepts (a       *)
(* --disable flag conflicts with the port option of its transport)       *)
SweepNoCert ==
    /\ validate = FALSE
    /\ cli_disable \in {f \in [Transports -> BOOLEAN] : ~f["UDP"] /\ ~f["TCP"]}
    /\ config_disable \in {f \in [Transports -> BOOLEAN] : ~f["UDP"] /\ ~f["TCP"]}
    /\ tls_cert = FALSE
    /\ v4addr = <<>>
    /\ v6addr = <<>>
    /\ zones = <<"example.com">>
    /\ user = None
    /\ group = None
    /\ cli_port \in {[k \in PortKeys |-> IF k \in given THEN Some(CliPorts[k]) ELSE <<>>] :
                       given \in SUBSET {"TLS", "HTTPS", "QUIC"}}
    /\ \A t \in {"TLS", "HTTPS", "QUIC"} : cli_disable[t] => cli_port[t] = <<>>
    /\ config_port = DefaultPorts
    /\ prometheus = NoMetrics
    /\ ident = Identity(User, User, User)

(* every build and setting of the metrics endpoint, with and without *)
(* --validate, over the zone lists of one declaration                *)
SweepMetrics ==
    /\ validate \in BOOLEAN
    /\ cli_disable = AllOn
    /\ config_disable = OnlyPlain
    /\ tls_cert = FALSE
    /\ v4addr = <<>>
    /\ v6addr = <<>>
    /\ zones \in SeqsUpTo(ZoneNames, 1)
    /\ user = None
    /\ group = None
    /\ cli_port = NoCliPorts
    /\ config_port = DefaultPorts
    /\ prometheus \in [feature : BOOLEAN, cli_disable : BOOLEAN, config_disable : BOOLEAN]
    /\ ident = Identity(User, User, User)

Init ==
    /\ \/ SweepTransports
       \/ SweepIdentity
       \/ SweepAddrs
       \/ SweepZones
       \/ SweepPorts
       \/ SweepNoCert
       \/ SweepMetrics
    /\ start = ident
    /\ pc = "tracing"
    /\ idx = 1
    /\ listen_addrs = <<>>
    /\ catalog = {}
    /\ server = "none"
    /\ registered = <<>>
    /\ signal = "none"
    /\ sigterms = 0
    /\ early = FALSE
    /\ task = "none"
    /\ token = FALSE
    /\ result = "pending"
    /\ error = ""
    /\ trace = <<>>
    /\ input = <<>>
    /\ output = <<>>

Next ==
    \/ InitTracing
    \/ BuildRuntime
    \/ ReadConfig
    \/ InstallPrometheus
    \/ RegisterSignal
    \/ LoadZone
    \/ PlanAddrs
    \/ NewServer
    \/ RegisterUdp
    \/ RegisterTcp
    \/ TlsCert
    \/ config_tls
    \/ config_https
    \/ config_quic
    \/ CheckDropPrivs
    \/ SpawnSignalTask
    \/ BlockUntilDone
    \/ ServerStops
    \/ ServerFails
    \/ Sigterm
    \/ SignalTask

Spec == Init /\ [][Next]_vars

(* The same program started on every combination of port options, with   *)
(* the scheduling the runtime gives: the spawned signal task is polled    *)
(* when its signal is pending, and the serve loop returns once it sees    *)
(* the token cancelled; async_run itself keeps taking its next step.      *)
InitLive ==
    /\ SweepPorts
    /\ start = ident
    /\ pc = "tracing"
    /\ idx = 1
    /\ listen_addrs = <<>>
    /\ catalog = {}
    /\ server = "none"
    /\ registered = <<>>
    /\ signal = "none"
    /\ sigterms = 0
    /\ early = FALSE
    /\ task = "none"
    /\ token = FALSE
    /\ result = "pending"
    /\ error = ""
    /\ trace = <<>>
    /\ input = <<>>
    /\ output = <<>>

(* the steps of run and async_run up to the call of block_until_done *)
Startup ==
    \/ InitTracing
    \/ BuildRuntime
    \/ ReadConfig
    \/ InstallPrometheus
    \/ RegisterSignal
    \/ LoadZone
    \/ PlanAddrs
    \/ NewServer
    \/ RegisterUdp
    \/ RegisterTcp
    \/ TlsCert
    \/ config_tls
    \/ config_https
    \/ config_quic
    \/ CheckDropPrivs
    \/ SpawnSignalTask
    \/ BlockUntilDone

SpecLive ==
    /\ InitLive
    /\ [][Next]_vars
    /\ WF_vars(Startup)
    /\ WF_vars(SignalTask)
    /\ WF_vars(ServerStops)

(* config_tls, config_https and config_quic called in turn on a listen    *)
(* address list given to them directly: the empty list, which async_run   *)
(* never passes, and every list of up to MaxForced addresses, under every *)
(* setting of the six flags of the three transports.                      *)
InitRegistrar ==
    /\ validate = FALSE
    /\ cli_disable \in {f \in [Transports -> BOOLEAN] : ~f["UDP"] /\ ~f["TCP"]}
    /\ config_disable \in {f \in [Transports -> BOOLEAN] : ~f["UDP"] /\ ~f["TCP"]}
    /\ tls_cert = TRUE
    /\ v4addr = <<>>
    /\ v6addr = <<>>
    /\ zones = <<>>
    /\ user = None
    /\ group = None
    /\ cli_port = NoCliPorts
    /\ config_port = DefaultPorts
    /\ prometheus = NoMetrics
    /\ ident = Identity(User, User, User)
    /\ start = ident
    /\ pc = "tls"
    /\ idx = 1
    /\ listen_addrs \in SeqsUpTo(V4Addrs \cup V6Addrs, MaxForced)
    /\ catalog = {}
    /\ server = "built"
    /\ registered = <<>>
    /\ signal = "registered"
    /\ sigterms = 0
    /\ early = FALSE
    /\ task = "none"
    /\ token = FALSE
    /\ result = "pending"
    /\ error = ""
    /\ trace = <<>>
    /\ input = <<>>
    /\ output = <<>>

NextRegistrar ==
    \/ config_tls
    \/ config_https
    \/ config_quic

SpecRegistrar == InitRegistrar /\ [][NextRegistrar]_vars

(* The conformance client parses one dig output; the server binary is not *)
(* running.                                                               *)
InitDig ==
    /\ input \in Inputs
    /\ output = <<>>
    /\ validate = FALSE
    /\ cli_disable = AllOn
    /\ config_disable = AllOn
    /\ tls_cert = FALSE
    /\ v4addr = <<>>
    /\ v6addr = <<>>
    /\ zones = <<>>
    /\ user = None
    /\ group = None
    /\ cli_port = NoCliPorts
    /\ config_port = DefaultPorts
    /\ prometheus = NoMetrics
    /\ ident = Identity(User, User, User)
    /\ start = ident
    /\ pc = "tracing"
    /\ idx = 1
    /\ listen_addrs = <<>>
    /\ catalog = {}
    /\ server = "none"
    /\ registered = <<>>
    /\ signal = "none"
    /\ sigterms = 0
    /\ early = FALSE
    /\ task = "none"
    /\ token = FALSE
    /\ result = "pending"
    /\ error = ""
    /\ trace = <<>>

NextDig == Parse

SpecDig == InitDig /\ [][NextDig]_vars

----------------------------------------------------------------------------
(* Vocabulary of the properties *)

TlsGroup == {"TLS", "HTTPS", "QUIC"}

SocketOps == {"load", "socket", "set_only_v6", "set_nonblocking", "bind", "listen",
              "from_std", "local_addr", "register"}

BuildOps == {"socket", "set_only_v6", "set_nonblocking", "bind", "listen", "from_std"}

StartupErrors == {"bind", "local_addr", "cert", "register"}

LookupErrors == {"user_cstring", "group_cstring", "lookup_user", "lookup_group"}

DropErrors == LookupErrors \cup {"setgid", "setuid"}

Has(op) == \E i \in DOMAIN trace : trace[i].op = op

At(op) == CHOOSE i \in DOMAIN trace : trace[i].op = op

Count(op) == Cardinality({i \in DOMAIN trace : trace[i].op = op})

Rank(t) == CHOOSE k \in DOMAIN TransportOrder : TransportOrder[k] = t

(* the transport's loop is meant to run: no flag disables it and, for the *)
(* TLS family, a certificate is configured                                *)
served(t) ==
    /\ ~cli_disable[t]
    /\ ~config_disable[t]
    /\ t \in TlsGroup => tls_cert

RegisteredOn(t) == SelectSeq(registered, LAMBDA e : e.t = t)

Planned(t) == [k \in DOMAIN listen_addrs |-> [t |-> t, addr |-> listen_addrs[k]]]

FullyUp ==
    \A t \in Transports :
        IF served(t) THEN RegisteredOn(t) = Planned(t) ELSE RegisteredOn(t) = <<>>

IsRoot(id) == id.uid = ROOT \/ id.euid = ROOT

Unresolvable(usr, grp) ==
    \/ ~cstring_new(usr) \/ getpwnam(usr) = NoEntry
    \/ ~cstring_new(grp) \/ getgrnam(grp) = NoEntry

OsFailures == SUBSET {"setgid", "setuid"}

EarlyErrors == {"tracing", "runtime", "config", "prometheus", "signal", "zone_name",
                "zone_load", "parse_v4", "parse_v6"}

(* async_run has computed its listen_addrs *)
PlanDone ==
    /\ pc \notin {"tracing", "runtime", "read_config", "prometheus", "signal", "zones",
                 "addrs"}
    /\ error \notin EarlyErrors

RegistrationLoops == {"udp", "tcp", "tls", "https", "quic"}

----------------------------------------------------------------------------
(* C1: check_drop_privs is invoked at most once, only when every served    *)
(* transport has been bound and registered on every planned address, and   *)
(* before the signal task is spawned; no socket operation follows it.      *)
C1_DropAfterBindsBeforeSpawn ==
    /\ Count("check_drop_privs") <= 1
    /\ Has("check_drop_privs") =>
          /\ FullyUp
          /\ \A j \in DOMAIN trace :
                /\ trace[j].op \in SocketOps => j < At("check_drop_privs")
                /\ trace[j].op = "spawn" => j > At("check_drop_privs")
    /\ Has("spawn") => Has("check_drop_privs")

C1_Witness ==
    /\ Has("spawn")
    /\ \E i \in DOMAIN registered : registered[i].t = "UDP"
    /\ \E i \in DOMAIN registered : registered[i].t = "QUIC"

(* C2 as stated: every hand-off of a socket to the server follows the *)
(* privilege drop.                                                    *)
C2_RegisterAfterDrop ==
    \A i \in DOMAIN trace :
        trace[i].op = "register" =>
            \E j \in 1..(i - 1) : trace[j].op = "check_drop_privs"

(* C2 amended: every hand-off precedes the invocation of check_drop_privs; *)
(* block_until_done is entered only after check_drop_privs succeeded; a    *)
(* failed drop ends startup with an error, the signal task not spawned and *)
(* the run loop never entered.                                             *)
C2_RunLoopAfterDrop ==
    /\ \A i \in DOMAIN trace :
          trace[i].op = "register" =>
              \A j \in 1..(i - 1) : trace[j].op # "check_drop_privs"
    /\ Has("block_until_done") =>
          /\ Has("check_drop_privs")
          /\ At("check_drop_privs") < At("block_until_done")
          /\ error \notin DropErrors
    /\ error \in DropErrors =>
          /\ result = "err"
          /\ pc = "done"
          /\ server = "built"
          /\ task = "none"
          /\ ~Has("spawn")
          /\ ~Has("block_until_done")

C2_Witness ==
    /\ error \in DropErrors
    /\ registered # <<>>

(* C3: setuid is only ever issued right after setgid, and a drop that *)
(* resolved both names issues both.                                   *)
C3_SetgidBeforeSetuid ==
    /\ \A i \in DOMAIN trace :
          trace[i].op = "setuid" => i > 1 /\ trace[i - 1].op = "setgid"
    /\ Has("getgrnam") /\ error \notin LookupErrors =>
          /\ Count("setgid") = 1
          /\ Count("setuid") = 1
          /\ At("setgid") < At("setuid")

C3_Witness ==
    /\ Has("setuid")
    /\ start.uid = ROOT
    /\ ident.uid = Nobody
    /\ ident.gid = Nobody
    /\ task = "waiting"

(* C4: as superuser with an unresolvable user or group name,             *)
(* check_drop_privs returns an error, issues neither setgid nor setuid   *)
(* and leaves the identity as it was.                                    *)
C4_UnresolvableNameFails ==
    /\ pc = "drop_privs" /\ IsRoot(ident) /\ Unresolvable(user_name, group_name) =>
          \A os_fail \in OsFailures :
              LET r == check_drop_privs(ident, user_name, group_name, os_fail) IN
              /\ ~r.ok
              /\ r.err \in LookupErrors
              /\ r.id = ident
              /\ \A i \in DOMAIN r.calls : r.calls[i].op \notin {"setgid", "setuid"}
    /\ error \in LookupErrors =>
          /\ result = "err"
          /\ ~Has("setgid")
          /\ ~Has("setuid")
          /\ ident = start

C4_Witness ==
    /\ error = "lookup_group"
    /\ start.uid = ROOT
    /\ getpwnam(user_name) # NoEntry
    /\ registered # <<>>

(* C5 as stated: an unprivileged process performs no system call at all *)
C5_NoSystemCalls ==
    pc = "drop_privs" /\ ~IsRoot(ident) =>
        \A os_fail \in OsFailures :
            LET r == check_drop_privs(ident, user_name, group_name, os_fail) IN
            /\ r.ok
            /\ r.id = ident
            /\ r.calls = <<>>

(* C5 amended: an unprivileged process issues only the identity queries   *)
(* (getuid, getgid, geteuid, getegid, twice) and succeeds with its        *)
(* identity unchanged, whatever the configured names; a process with uid  *)
(* or euid 0 never takes that path.                                       *)
C5_UnprivilegedSkips ==
    /\ pc = "drop_privs" =>
          \A os_fail \in OsFailures :
              LET r == check_drop_privs(ident, user_name, group_name, os_fail) IN
              IF IsRoot(ident)
              THEN /\ r.calls # snapshot \o snapshot
                   /\ r.ok => \E i \in DOMAIN r.calls : r.calls[i].op = "setuid"
                   /\ ~r.ok => r.err \in DropErrors
              ELSE /\ r.ok
                   /\ r.id = ident
                   /\ r.calls = snapshot \o snapshot
    /\ Has("check_drop_privs") /\ ~IsRoot(start) =>
          /\ ident = start
          /\ error \notin DropErrors
          /\ \A i \in DOMAIN trace :
                i > At("check_drop_privs") /\ trace[i].t = "-" =>
                    trace[i].op \in {"getuid", "getgid", "geteuid", "getegid",
                                     "spawn", "block_until_done"}

C5_Witness ==
    /\ ~IsRoot(start)
    /\ user = "ghost"
    /\ group = NulName
    /\ task = "waiting"

(* C6: the run loop never executes with uid or euid 0, whatever the *)
(* configured user and group.                                      *)
C6_NeverSuperuser ==
    server = "running" => ident.uid # ROOT /\ ident.euid # ROOT

(* The extent to which the drop does hold: when the configured user is   *)
(* not the superuser and the process was not started with real uid 0     *)
(* under another effective uid, the run loop never executes with a       *)
(* superuser id; after the drop the identity never changes again.        *)
DroppedWhileServing ==
    /\ [](server = "running" /\ getpwnam(user_name) # ROOT
            /\ (start.euid = ROOT \/ start.uid # ROOT)
          => ident.uid # ROOT /\ ident.euid # ROOT /\ ident.suid # ROOT)
    /\ [][Has("check_drop_privs") => ident' = ident]_vars

(* C7: a failed bind, address lookup, certificate load or registration     *)
(* ends async_run with an error at once: the failing call is the last      *)
(* operation issued, the drop is not called, the signal task not spawned,  *)
(* the run loop never entered, and nothing more can happen.                *)
C7_FailFast ==
    error \in StartupErrors =>
        /\ result = "err"
        /\ pc = "done"
        /\ server = "built"
        /\ task = "none"
        /\ ~Has("check_drop_privs")
        /\ ~Has("spawn")
        /\ ~Has("block_until_done")
        /\ trace # <<>>
        /\ LET last == trace[Len(trace)] IN
           /\ error = "bind" => last.op \in BuildOps
           /\ error = "local_addr" => last.op = "local_addr"
           /\ error = "cert" => last.op = "load"
           /\ error = "register" => last.op = "register"
        /\ Len(registered) = Count("register") - (IF error = "register" THEN 1 ELSE 0)
        /\ ~ENABLED Next

C7_Witness ==
    /\ error = "cert"
    /\ Len(registered) = 2 * Len(listen_addrs) + 1
    /\ served("QUIC")

C9_DisabledNeverTouched ==
    /\ \A i \in DOMAIN trace :
          trace[i].t \in Transports =>
              ~cli_disable[trace[i].t] /\ ~config_disable[trace[i].t]
    /\ \A i \in DOMAIN registered :
          ~cli_disable[registered[i].t] /\ ~config_disable[registered[i].t]
    /\ Has("check_drop_privs") =>
          \A t \in Transports :
              served(t) => \E i \in DOMAIN trace : trace[i].t = t

C9_Witness ==
    /\ Has("spawn")
    /\ cli_disable["UDP"] /\ ~config_disable["UDP"]
    /\ ~cli_disable["TLS"] /\ config_disable["TLS"]
    /\ cli_disable["HTTPS"] /\ config_disable["HTTPS"]
    /\ served("TCP")
    /\ served("QUIC")

(* C10: operations are issued transport by transport in the order UDP, *)
(* TCP, TLS, HTTPS, QUIC, and within a transport address by address in *)
(* the order of the listen plan.                                       *)
C10_TransportOrder ==
    /\ LET tt == SelectSeq(trace, LAMBDA e : e.t \in Transports) IN
       \A i \in 1..(Len(tt) - 1) :
           /\ Rank(tt[i].t) <= Rank(tt[i + 1].t)
    /\ \A t \in Transports :
          LET b == SelectSeq(trace, LAMBDA e : e.t = t /\ e.op = "bind")
              r == RegisteredOn(t)
          IN  /\ Len(b) <= Len(listen_addrs)
              /\ \A k \in DOMAIN b : b[k].addr = listen_addrs[k]
              /\ Len(r) <= Len(listen_addrs)
              /\ \A k \in DOMAIN r : r[k].addr = listen_addrs[k]
    /\ \A i \in 1..(Len(registered) - 1) :
          Rank(registered[i].t) <= Rank(registered[i + 1].t)

C10_Witness ==
    /\ Len(listen_addrs) = 3
    /\ Len(registered) = 15
    /\ listen_addrs[1] # listen_addrs[2]

(* C11: with no IPv4 and no IPv6 address configured the listen plan is    *)
(* exactly the IPv4 unspecified address followed by the IPv6 unspecified  *)
(* address, and no registration loop is ever entered, and no transport    *)
(* operation ever issued, with an empty plan.                             *)
C11_DefaultPlan ==
    /\ (PlanDone /\ v4addr = <<>> /\ v6addr = <<>>) =>
          listen_addrs = <<V4_UNSPECIFIED, V6_UNSPECIFIED>>
    /\ pc \in RegistrationLoops => listen_addrs # <<>>
    /\ \A i \in DOMAIN trace : trace[i].t \in Transports => listen_addrs # <<>>

C11_Witness ==
    /\ v4addr = <<>>
    /\ v6addr = <<>>
    /\ Has("spawn")
    /\ \E i \in DOMAIN registered :
          registered[i].t = "UDP" /\ registered[i].addr = V4_UNSPECIFIED
    /\ \E i \in DOMAIN registered :
          registered[i].t = "TCP" /\ registered[i].addr = V6_UNSPECIFIED

(* C12: with at least one address configured the listen plan is the IPv4 *)
(* list in configured order followed by the IPv6 list in configured      *)
(* order, element for element: duplicates are kept and nothing is added. *)
C12_ConfiguredPlan ==
    (PlanDone /\ (v4addr # <<>> \/ v6addr # <<>>)) =>
        /\ Len(listen_addrs) = Len(v4addr) + Len(v6addr)
        /\ \A i \in DOMAIN v4addr : listen_addrs[i] = v4addr[i]
        /\ \A j \in DOMAIN v6addr : listen_addrs[Len(v4addr) + j] = v6addr[j]
        /\ \A k \in DOMAIN listen_addrs :
              listen_addrs[k] \notin {V4_UNSPECIFIED, V6_UNSPECIFIED}

C12_Witness ==
    /\ Len(v4addr) = 2
    /\ v4addr[1] = v4addr[2]
    /\ v6addr # <<>>
    /\ Has("spawn")
    /\ listen_addrs = <<v4addr[1], v4addr[1], v6addr[1]>>

(* The addresses transport t has issued a bind on, in order *)
BoundOn(t) ==
    LET b == SelectSeq(trace, LAMBDA e : e.t = t /\ e.op = "bind")
    IN  [k \in DOMAIN b |-> b[k].addr]

(* C13 as stated: on a successful startup every transport that no flag *)
(* disables has registered one socket per planned address.             *)
C13_EnabledCount ==
    Has("block_until_done") =>
        \A t \in Transports :
            Len(RegisteredOn(t)) = IF enabled(t) THEN Len(listen_addrs) ELSE 0

(* C13 amended: on a successful startup UDP and TCP, when enabled, and    *)
(* TLS, HTTPS and QUIC, when enabled and a certificate is configured,     *)
(* have each issued exactly one bind per position of the listen plan, in  *)
(* plan order, and registered exactly one socket per position; every      *)
(* other transport has bound and registered nothing.                      *)
C13_RegistrationCount ==
    Has("block_until_done") =>
        \A t \in Transports :
            IF served(t)
            THEN /\ BoundOn(t) = listen_addrs
                 /\ Len(RegisteredOn(t)) = Len(listen_addrs)
                 /\ \A k \in DOMAIN listen_addrs :
                       RegisteredOn(t)[k].addr = listen_addrs[k]
            ELSE /\ BoundOn(t) = <<>>
                 /\ RegisteredOn(t) = <<>>

C13_Witness ==
    /\ Has("block_until_done")
    /\ v4addr = <<>>
    /\ v6addr = <<>>
    /\ ~enabled("TCP")
    /\ enabled("UDP")
    /\ Len(RegisteredOn("UDP")) = 2
    /\ RegisteredOn("TCP") = <<>>
    /\ enabled("TLS")
    /\ tls_cert

(* The port settings transport t reads *)
PortKey(t) == IF t \in {"UDP", "TCP"} THEN "DNS" ELSE t

BindsOf(t) == SelectSeq(trace, LAMBDA e : e.t = t /\ e.op = "bind")

(* C14: every bind of a transport is to the port its own command-line   *)
(* option gives and, without that option, to its own configured port:   *)
(* UDP and TCP read --port and listen_port, TLS, HTTPS and QUIC each    *)
(* their own option and their own configured port, whatever --port is.  *)
C14_EffectivePorts ==
    \A i \in DOMAIN trace :
        trace[i].op = "bind" =>
            LET t == trace[i].t
                k == PortKey(t)
            IN  /\ cli_port[k] # <<>> => trace[i].port = cli_port[k]
                /\ cli_port[k] = <<>> => trace[i].port = Some(config_port[k])
                /\ t \in TlsGroup =>
                      trace[i].port \in {cli_port[t], Some(config_port[t])}

C14_Witness ==
    /\ Has("spawn")
    /\ cli_port["DNS"] # <<>>
    /\ cli_port["TLS"] = <<>>
    /\ cli_port["HTTPS"] # <<>>
    /\ config_port = ConfiguredPorts
    /\ BindsOf("TCP")[1].port = cli_port["DNS"]
    /\ BindsOf("TLS")[1].port = Some(config_port["TLS"])
    /\ BindsOf("HTTPS")[1].port = cli_port["HTTPS"]
    /\ BindsOf("QUIC")[1].port = Some(config_port["QUIC"])

ZoneErrors == {"zone_name", "zone_load"}

(* every operation that opens a socket or acts on one *)
NetworkOps == SocketOps \cup {"http_listener"}

(* The zones zone.zone() and zone.load() have been called on, in order *)
ZonesNamed ==
    LET z == SelectSeq(trace, LAMBDA e : e.op = "zone_name")
    IN  [k \in DOMAIN z |-> z[k].addr]

ZonesLoaded ==
    LET z == SelectSeq(trace, LAMBDA e : e.op = "zone_load")
    IN  [k \in DOMAIN z |-> z[k].addr]

ZonesDone ==
    /\ pc \notin {"tracing", "runtime", "read_config", "prometheus", "signal", "zones"}
    /\ error \notin {"tracing", "runtime", "config", "prometheus", "signal", "zone_name",
                      "zone_load"}

(* the declarations of a name, names compared as the catalog compares them *)
Declarations(name) == {i \in DOMAIN zones : LowerName(zones[i]) = name}

Last(S) == CHOOSE i \in S : \A j \in S : j <= i

(* C16: once every zone is loaded the catalog holds exactly one entry per *)
(* distinct declared zone name, and the authority under a name is the one *)
(* loaded from the last declaration of that name.                         *)
C16_LastDeclarationWins ==
    ZonesDone =>
        /\ \A e \in catalog : Declarations(e[1]) # {}
        /\ \A i \in DOMAIN zones :
              LET name == LowerName(zones[i])
              IN  {e \in catalog : e[1] = name} = {<<name, Last(Declarations(name))>>}

C16_Witness ==
    /\ ZonesDone
    /\ Len(zones) = 2
    /\ zones[1] = zones[2]
    /\ catalog = {<<LowerName(zones[1]), 2>>}
    /\ server = "built"

(* C17: a run with --validate that ends with success has opened no socket *)
(* of any kind, built no server and invoked no privilege drop.            *)
C17_ValidateBindsNothing ==
    (validate /\ result = "ok") =>
        /\ \A i \in DOMAIN trace : trace[i].op \notin NetworkOps
        /\ server = "none"
        /\ registered = <<>>
        /\ ~Has("check_drop_privs")
        /\ ~Has("block_until_done")

(* What does hold of --validate: nothing of the five transports is opened, *)
(* no server is built and the identity is left alone.                      *)
ValidateOpensNoTransport ==
    (validate /\ result = "ok") =>
        /\ \A i \in DOMAIN trace : trace[i].op \notin SocketOps
        /\ server = "none"
        /\ registered = <<>>
        /\ ~Has("check_drop_privs")
        /\ ~Has("block_until_done")
        /\ ident = start

ConfigErrors == {"config", "zone_name", "parse_v4", "parse_v6"}

(* C18: when startup ends with a configuration error (configuration file, *)
(* zone name, IPv4 or IPv6 address list) no socket has been opened or     *)
(* bound before it.                                                       *)
C18_ConfigErrorBeforeNetwork ==
    error \in ConfigErrors =>
        \A i \in DOMAIN trace : trace[i].op \notin NetworkOps

(* What does hold of a configuration error: no transport socket precedes it *)
ConfigErrorBeforeTransports ==
    error \in ConfigErrors =>
        /\ result = "err"
        /\ server = "none"
        /\ \A i \in DOMAIN trace : trace[i].op \notin SocketOps

LoadsOf(t) == SelectSeq(trace, LAMBDA e : e.t = t /\ e.op = "load")

Returned(t) ==
    \/ pc = "drop_privs"
    \/ t = "TLS" /\ pc \in {"https", "quic"}
    \/ t = "HTTPS" /\ pc = "quic"

(* C20: config_tls, config_https and config_quic, called with an empty  *)
(* listen address list, return success having registered no listener,   *)
(* issued no socket call and loaded no certificate: each call logs one  *)
(* warning and nothing else.                                            *)
C20_EmptyListWarns ==
    listen_addrs = <<>> =>
        /\ result = "pending"
        /\ error = ""
        /\ registered = <<>>
        /\ \A i \in DOMAIN trace : trace[i].op = "warn"
        /\ \A t \in TlsGroup :
              Returned(t) =>
                  Len(SelectSeq(trace, LAMBDA e : e.t = t)) = IF enabled(t) THEN 1 ELSE 0

C20_Witness ==
    /\ listen_addrs = <<>>
    /\ pc = "drop_privs"
    /\ \A t \in TlsGroup : enabled(t)
    /\ Len(trace) = 3
    /\ result = "pending"

C22_GracefulShutdown ==
    (server = "running" /\ signal = "pending")
        ~> ((token /\ server = "stopped" /\ exit_status = "0") \/ exit_status = "panic")

C22_Witness ==
    /\ token
    /\ server = "stopped"
    /\ exit_status = "0"
    /\ sigterms = 1
    /\ Has("block_until_done")

(* C23: an error returned by block_until_done ends the process by a    *)
(* panic: never with an Ok result or exit status 0, never with the      *)
(* ordinary error exit, and block_until_done is entered at most once in *)
(* a run.                                                               *)
C23_EngineErrorPanics ==
    /\ error = "server" =>
          /\ result = "panic"
          /\ exit_status = "panic"
          /\ error_lines = <<>>
          /\ pc = "done"
          /\ server = "stopped"
    /\ result = "panic" => error = "server"
    /\ Count("block_until_done") <= 1

C23_Witness ==
    /\ error = "server"
    /\ result = "panic"
    /\ ~token
    /\ task = "waiting"

AllStartupErrors == EarlyErrors \cup StartupErrors \cup DropErrors

(* C24: every startup error ends the process with one `Error: ...` line *)
(* and exit status 1, the server never run; exit status 0 is reached    *)
(* only by a successful --validate run or by a shutdown after the token *)
(* was cancelled; no error exits with status 0.                         *)
C24_ExitStatus ==
    /\ error \in AllStartupErrors =>
          /\ result = "err"
          /\ exit_status = "1"
          /\ error_lines = <<error>>
          /\ ~Has("block_until_done")
    /\ result = "err" => error \in AllStartupErrors
    /\ exit_status = "0" =>
          /\ error = ""
          /\ error_lines = <<>>
          /\ \/ validate /\ server = "none"
             \/ token /\ server = "stopped"
    /\ (validate /\ pc = "done" /\ error = "") => exit_status = "0"

C24_Witness ==
    /\ error = "setgid"
    /\ exit_status = "1"
    /\ Len(registered) = 4
    /\ Len(error_lines) = 1

StreamTransports == {"TCP", "TLS", "HTTPS"}

(* the operation issued just before the i-th one, on the same socket *)
Before(i) ==
    IF i > 1 /\ trace[i - 1].t = trace[i].t /\ trace[i - 1].addr = trace[i].addr
    THEN trace[i - 1].op
    ELSE "-"

(* C25: on every socket the calls come in one order: socket, the v6-only  *)
(* option for an IPv6 address and never for an IPv4 one, non-blocking     *)
(* mode, bind, listen with backlog 128 for a stream socket only, and the  *)
(* hand-over to the runtime; the socket reaches the caller only after the *)
(* last of them, and a failed call is the last one made on that socket.   *)
C25_SocketSteps ==
    /\ \A i \in DOMAIN trace :
          LET e == trace[i] IN
          /\ e.op = "set_only_v6" => ~is_ipv4(e.addr) /\ Before(i) = "socket"
          /\ e.op = "set_nonblocking" =>
                Before(i) = IF is_ipv4(e.addr) THEN "socket" ELSE "set_only_v6"
          /\ e.op = "bind" => Before(i) = "set_nonblocking"
          /\ e.op = "listen" =>
                /\ Before(i) = "bind"
                /\ e.t \in StreamTransports
                /\ e.backlog = Some(LISTEN_BACKLOG)
          /\ e.op = "from_std" =>
                Before(i) = IF e.t \in StreamTransports THEN "listen" ELSE "bind"
          /\ e.op = "local_addr" => Before(i) = "from_std"
    /\ error = "bind" =>
          /\ trace[Len(trace)].op \in BuildOps
          /\ \A t \in Transports :
                Len(RegisteredOn(t)) = Cardinality({i \in DOMAIN trace :
                    trace[i].t = t /\ trace[i].op = "local_addr"})

C25_Witness ==
    /\ Has("spawn")
    /\ \E i \in DOMAIN trace :
          trace[i].op = "listen" /\ trace[i].t = "TCP" /\ trace[i].addr \in V6Addrs
    /\ \E i \in DOMAIN trace :
          trace[i].op = "from_std" /\ trace[i].t = "QUIC" /\ trace[i].addr \in V4Addrs

(* C28: when setgid fails, setuid is never attempted, so check_drop_privs *)
(* never returns with the user id changed while the group id change      *)
(* failed.                                                               *)
C28_FailFast ==
    error = "setgid" =>
        /\ ~Has("setuid")
        /\ ident.uid = start.uid
        /\ ident.euid = start.euid

(* C29: the handler is registered before any zone is loaded and before    *)
(* any listener of the five transports is bound, and the task is spawned  *)
(* after check_drop_privs; a delivered signal stays pending until the     *)
(* task takes it and cancels the token; a delivery changes nothing of the *)
(* startup path; and a signal delivered before the task was spawned leads *)
(* to the cancelled token once the task exists (or the engine has failed  *)
(* first).                                                                *)
C29_SignalNotLost ==
    /\ [](\A i \in DOMAIN trace :
            /\ trace[i].op \in SocketOps \cup {"zone_name", "zone_load"} =>
                  Has("signal") /\ At("signal") < i
            /\ trace[i].op = "spawn" =>
                  Has("check_drop_privs") /\ At("check_drop_privs") < i)
    /\ [](early /\ task = "none" /\ signal # "none" => signal = "pending")
    /\ [][signal = "pending" =>
             \/ signal' = "pending"
             \/ task = "waiting" /\ task' = "done" /\ token']_vars
    /\ [][sigterms' # sigterms =>
             /\ signal' = "pending" \/ task = "done"
             /\ <<config, pc, idx, listen_addrs, catalog, server, registered, ident,
                  task, token, result, error, trace>>' =
                <<config, pc, idx, listen_addrs, catalog, server, registered, ident,
                  task, token, result, error, trace>>]_vars
    /\ (early /\ task = "waiting") ~> (token \/ result = "panic")

C29_Witness ==
    /\ early
    /\ sigterms = 1
    /\ token
    /\ task = "done"
    /\ server = "running"
    /\ Len(registered) >= 2

(* C30: without a certificate in the configuration no operation at all is *)
(* issued for TLS, HTTPS or QUIC (no credential load, no bind, no         *)
(* registration), whatever their flags and port overrides; no error comes *)
(* of it, the step after the TCP listeners is check_drop_privs, and the   *)
(* server then holds the UDP and TCP listeners only.                      *)
C30_NoCertNoTlsGroup ==
    /\ [](~tls_cert =>
            /\ \A i \in DOMAIN trace : trace[i].t \notin TlsGroup
            /\ \A i \in DOMAIN registered : registered[i].t \in {"UDP", "TCP"}
            /\ pc \notin {"tls", "https", "quic"}
            /\ error # "cert"
            /\ error \in StartupErrors => trace[Len(trace)].t \in {"UDP", "TCP"}
            /\ Has("check_drop_privs") =>
                  \A t \in {"UDP", "TCP"} :
                      Len(RegisteredOn(t)) = IF enabled(t) THEN Len(listen_addrs) ELSE 0)
    /\ [][pc = "tls_cert" /\ ~tls_cert /\ pc' # pc =>
             /\ pc' = "drop_privs"
             /\ result' = "pending"
             /\ trace' = trace]_vars

C30_Witness ==
    /\ ~tls_cert
    /\ \A t \in TlsGroup : enabled(t)
    /\ cli_port["HTTPS"] # <<>>
    /\ cli_port["QUIC"] # <<>>
    /\ server = "running"
    /\ Len(registered) = 2 * Len(listen_addrs)
    /\ Len(listen_addrs) = 2

(* Vocabulary of the parser's properties *)

Out == output[1]

Occurrences(prefix) == {i \in DOMAIN input : starts_with(input[i], prefix)}

IsHeader(line) == \E s \in {"answer", "authority", "additional"} : starts_with(line, Header(s))

(* the first empty line after line h, or the end of the input *)
EndOf(h) ==
    IF \E e \in (h + 1)..Len(input) : input[e] = <<>>
    THEN CHOOSE e \in (h + 1)..Len(input) :
             input[e] = <<>> /\ \A k \in (h + 1)..(e - 1) : input[k] # <<>>
    ELSE Len(input) + 1

BodyOf(h) == SubSeq(input, h + 1, EndOf(h) - 1)

(* the lines before line j are read without an error or a panic *)
Clean(j) == scan(Locals, SubSeq(input, 1, j - 1)).kind = "ok"

(* line j follows a header with no empty line in between *)
InSection(j) ==
    \E h \in 1..(j - 1) :
        IsHeader(input[h]) /\ \A k \in (h + 1)..(j - 1) : input[k] # <<>>

CodeOf(line) ==
    CASE line = Ede22 -> 22
      [] line = Ede9  -> 9
      [] line = Ede09 -> 9
      [] line = Ede7  -> 7
      [] OTHER        -> 0

(* C27: on success DigOutput.ede is ascending and holds exactly the codes   *)
(* of the EDE lines, one line per code, whatever the order of the lines;   *)
(* the code is the text up to the first space or the whole remainder; an   *)
(* EDE line inside a record section is read as a record; a code met a      *)
(* second time panics.                                                     *)
C27_Ede ==
    output # <<>> =>
        LET at == Occurrences(EDE_PREFIX) IN
        /\ Out.kind = "ok" =>
              LET ede == Out.value.ede IN
              /\ \A i, j \in DOMAIN ede : i < j => ede[i] < ede[j]
              /\ {ede[k] : k \in DOMAIN ede} = {CodeOf(input[i]) : i \in at}
              /\ Len(ede) = Cardinality(at)
        /\ \A j \in at :
              Clean(j) =>
                  IF InSection(j)
                  THEN Out.kind = "err" /\ Out.err[1] = "record"
                  ELSE /\ (\E i \in at : i < j /\ CodeOf(input[i]) = CodeOf(input[j])) =>
                             Out = [kind |-> "panic", err |-> <<"duplicate EDE", "EDE">>]
                       /\ Out.kind = "ok" => CodeOf(input[j]) \in ExtendedDnsError

C27_Witness ==
    /\ output # <<>>
    /\ Out.kind = "ok"
    /\ input = Preamble \o <<Ede22, Ede09>>
    /\ Out.value.ede = <<9, 22>>

(* the flag tokens each flags line of the inputs carries before its *)
(* semicolon, and the status each status line names                 *)
TokensOf(line) ==
    CASE line = FlagsLine      -> {"qr", "rd", "ra"}
      [] line = FlagsReordered -> {"qr", "rd", "ra"}
      [] line = FlagsUnknown   -> {"qr", "tc"}
      [] OTHER                 -> {}

StatusOf(line) ==
    CASE line = StatusLine    -> "SERVFAIL"
      [] line = StatusUnknown -> "FORMERR"
      [] OTHER                -> "NOERROR"

KnownFlags == {"qr", "rd", "ra", "aa", "ad", "cd"}

KnownStatus == {"NOERROR", "NXDOMAIN", "REFUSED", "SERVFAIL"}

Failed(what, which) == [kind |-> "err", err |-> <<what, which>>]

(* C31: the parse succeeds only with exactly one flags line and exactly   *)
(* one status line, both outside the sections; with no failure in the     *)
(* loop a missing flags line is reported as not found, before a missing   *)
(* status line; a well-formed second flags or status line is reported as  *)
(* found more than once; a flags line without a semicolon or a status     *)
(* line without a comma as missing it; an unknown flag or status is an    *)
(* error; and the flags returned are exactly the set of the flag tokens,  *)
(* whatever their order and repetition.                                   *)
C31_FlagsAndStatus ==
    output # <<>> =>
        LET fl == Occurrences(FLAGS_PREFIX)
            stl == Occurrences(STATUS_PREFIX)
        IN
        /\ Out.kind = "ok" =>
              /\ \E f \in fl, s \in stl :
                    /\ fl = {f} /\ stl = {s}
                    /\ ~InSection(f) /\ ~InSection(s)
                    /\ {n \in KnownFlags : Out.value.flags[n]} = TokensOf(input[f])
                    /\ Out.value.status = StatusOf(input[s])
              /\ Out.value.status \in KnownStatus
        /\ Clean(Len(input) + 1) =>
              /\ fl = {} => Out = Failed("not found", "FLAGS")
              /\ fl # {} /\ stl = {} => Out = Failed("not found", "STATUS")
        /\ \A j \in fl :
              Clean(j) /\ ~InSection(j) =>
                  /\ input[j] = FlagsNoSemicolon => Out = Failed("missing", "FLAGS")
                  /\ input[j] # FlagsNoSemicolon /\ (\E i \in fl : i < j) =>
                        Out = Failed("found more than once", "FLAGS")
                  /\ ~(TokensOf(input[j]) \subseteq KnownFlags) => Out.kind = "err"
                  /\ input[j] = FlagsUnknown /\ ~(\E i \in fl : i < j) =>
                        Out = Failed("unknown flag", "FLAGS")
        /\ \A j \in stl :
              Clean(j) /\ ~InSection(j) =>
                  /\ input[j] = StatusNoComma => Out = Failed("missing", "STATUS")
                  /\ input[j] # StatusNoComma /\ (\E i \in stl : i < j) =>
                        Out = Failed("found more than once", "STATUS")
                  /\ StatusOf(input[j]) \notin KnownStatus => Out.kind = "err"
                  /\ input[j] = StatusUnknown /\ ~(\E i \in stl : i < j) =>
                        Out = Failed("unknown status", "STATUS")

C31_Witness ==
    /\ output # <<>>
    /\ input = <<FlagsReordered, Empty, StatusLine>>
    /\ Out.kind = "ok"
    /\ Out.value.flags = [NoFlags EXCEPT !["qr"] = TRUE, !["rd"] = TRUE, !["ra"] = TRUE]
    /\ Out.value.status = "SERVFAIL"

====
